---- MODULE Spec2Model ----
(***************************************************************************)
(* The place-resolution pipeline of the hidden-gems application: the App   *)
(* component's state and handlers (text search, suggestion select, area    *)
(* search, add / remove / reorder / toggle-visited) and the SearchBar's    *)
(* debounced autocomplete.                                                 *)
(*                                                                         *)
(* JavaScript strings are sequences of one-character strings, so that      *)
(* trim, toLowerCase, includes, match(/\d{6}/) and parseFloat are computed *)
(* and not assumed.  A JavaScript value that may be undefined, null, a     *)
(* number, NaN or a string is a record [k, n, s].  The image field of a    *)
(* Location is left out: no handler reads it.                              *)
(***************************************************************************)
EXTENDS Integers, Sequences, FiniteSets, TLC

(* ------------------------------ bounds ------------------------------- *)
MaxRuns == 2          \* handleGlobalSearch invocations that get past the guard
MaxSaved == 3         \* length of the Saved Set
MaxClock == 1         \* ticks of Date.now() after start
MaxAreaRuns == 1      \* handleSearchArea invocations in flight
MaxFetches == 1       \* autocomplete fetches in flight
MaxOps == 4           \* user operations in a session
MaxGeocodes == 2      \* performGeocode calls in flight

(* --------------------------- JavaScript values ----------------------- *)
Undef == [k |-> "undef", n |-> 0, s |-> <<>>]
NaN == [k |-> "nan", n |-> 0, s |-> <<>>]
Num(x) == [k |-> "num", n |-> x, s |-> <<>>]
Str(t) == [k |-> "str", n |-> 0, s |-> t]

\* JavaScript truthiness of a primitive: undefined, NaN, 0 and "" are falsy.
Truthy(v) ==
    CASE v.k = "num" -> v.n # 0
      [] v.k = "str" -> v.s # <<>>
      [] OTHER -> FALSE

\* String(v) as used by "+" and by template literals.
JsString(v) ==
    CASE v.k = "str" -> v.s
      [] v.k = "undef" -> <<"u", "n", "d", "e", "f", "i", "n", "e", "d">>
      [] v.k = "nan" -> <<"N", "a", "N">>

(* ------------------------------ strings ------------------------------ *)
UpperLetters == <<"A", "B", "C", "D", "E", "F", "G", "H", "I", "J", "K", "L", "M",
                  "N", "O", "P", "Q", "R", "S", "T", "U", "V", "W", "X", "Y", "Z">>
LowerLetters == <<"a", "b", "c", "d", "e", "f", "g", "h", "i", "j", "k", "l", "m",
                  "n", "o", "p", "q", "r", "s", "t", "u", "v", "w", "x", "y", "z">>
Digits == <<"0", "1", "2", "3", "4", "5", "6", "7", "8", "9">>

LowerChar(c) ==
    IF \E i \in 1..Len(UpperLetters) : UpperLetters[i] = c
    THEN LowerLetters[CHOOSE i \in 1..Len(UpperLetters) : UpperLetters[i] = c]
    ELSE c

\* String.prototype.toLowerCase
ToLowerCase(s) == [i \in 1..Len(s) |-> LowerChar(s[i])]

IsSpace(c) == c = " "

RECURSIVE TrimStart(_)
TrimStart(s) == IF s # <<>> /\ IsSpace(Head(s)) THEN TrimStart(Tail(s)) ELSE s

RECURSIVE TrimEnd(_)
TrimEnd(s) ==
    IF s # <<>> /\ IsSpace(s[Len(s)]) THEN TrimEnd(SubSeq(s, 1, Len(s) - 1)) ELSE s

\* String.prototype.trim
Trim(s) == TrimEnd(TrimStart(s))

\* String.prototype.includes
Includes(s, t) == \E i \in 0..(Len(s) - Len(t)) : SubSeq(s, i + 1, i + Len(t)) = t

IsDigit(c) == \E i \in 1..Len(Digits) : Digits[i] = c
DigitValue(c) == (CHOOSE i \in 1..Len(Digits) : Digits[i] = c) - 1

\* The start positions of the matches of /\d{6}/ in s.
PostalStarts(s) == {i \in 1..(Len(s) - 5) : \A j \in 0..5 : IsDigit(s[i + j])}
\* s.match(/\d{6}/): the leftmost match, <<>> when there is none (null).
PostalMatch(s) ==
    IF PostalStarts(s) = {} THEN <<>>
    ELSE LET i == CHOOSE a \in PostalStarts(s) : \A b \in PostalStarts(s) : a <= b
         IN SubSeq(s, i, i + 5)

RECURSIVE DigitPrefix(_)
DigitPrefix(s) ==
    IF s # <<>> /\ IsDigit(Head(s)) THEN <<Head(s)>> \o DigitPrefix(Tail(s)) ELSE <<>>

RECURSIVE DecimalValue(_)
DecimalValue(ds) ==
    IF ds = <<>> THEN 0
    ELSE 10 * DecimalValue(SubSeq(ds, 1, Len(ds) - 1)) + DigitValue(ds[Len(ds)])

\* parseFloat on texts without a fraction or exponent: leading white space and
\* an optional sign are skipped, the longest digit prefix is the value, and a
\* text without one is NaN.
ParseFloat(s) ==
    LET t == TrimStart(s)
        neg == t # <<>> /\ Head(t) = "-"
        u == IF t # <<>> /\ (Head(t) = "-" \/ Head(t) = "+") THEN Tail(t) ELSE t
        ds == DigitPrefix(u)
    IN IF ds = <<>> THEN NaN
       ELSE Num(IF neg THEN 0 - DecimalValue(ds) ELSE DecimalValue(ds))

SingaporeSuffix == <<" ", "S", "i", "n", "g", "a", "p", "o", "r", "e">>


\* s.split(',')[0]
FirstSegment(s) ==
    IF \E i \in 1..Len(s) : s[i] = ","
    THEN SubSeq(s, 1, (CHOOSE i \in 1..Len(s) : s[i] = "," /\ \A j \in 1..(i - 1) : s[j] # ",") - 1)
    ELSE s

(* ------------------------------ records ------------------------------ *)
NoId == <<"null", 0>>
TempId == <<"temp-search-result", 0>>
Text(s) == [pre |-> "", s |-> s]

\* A Location (types.ts) without its image.
Loc(id, name, lat, lng, description, category, placeType, visited, address) ==
    [id |-> id, name |-> name, coordinate |-> [lat |-> lat, lng |-> lng],
     description |-> description, category |-> category, placeType |-> placeType,
     visited |-> visited, address |-> address]

Ha == <<"H", "a">>
HaLo == <<"H", "a", " ", "L", "o">>
Zed == <<"Z", "e", "d">>

\* The Saved Set the App starts with: what localStorage holds, or MOCK_LOCATIONS.
\* Two places, the second visited, the name of the first a prefix of the second.
SavedAtStart ==
    << Loc(<<"saved", 1>>, Ha, Num(1), Num(103), Text(<<"a">>), "Hidden Gem",
           "Activity", FALSE, Undef),
       Loc(<<"saved", 2>>, HaLo, Num(1), Num(104), Text(<<"b">>), "Tourist Trap",
           "Activity", TRUE, Undef) >>

\* The same two places in the other order.
SavedSets == {SavedAtStart, <<SavedAtStart[2], SavedAtStart[1]>>}

(* ------------------------------ inputs ------------------------------- *)
\* What the user types into the search box.
Queries ==
    { <<>>, <<" ">>, <<"h", "a">>, <<"h", "a", " ">>, <<"L", "O">>, <<"z", "e", "d">> }

PostalAddress == <<"9", " ", "R", "d", " ", "1", "2", "3", "4", "5", "6">>
PlainAddress == <<"9", " ", "Z", "e", "d", " ", "R", "d">>

SkObj(name, address, lat, lng, description, category, placeType) ==
    [name |-> name, address |-> address, coordinates |-> [lat |-> lat, lng |-> lng],
     description |-> description, category |-> category, placeType |-> placeType]

\* The objects the structured-knowledge service answers with.  An absent
\* coordinates member reads as undefined lat and lng (result.coordinates?.lat);
\* an absent category or placeType is "", falsy like undefined.
ObjFull == SkObj(Str(Zed), Str(PostalAddress), Num(1), Num(103), Str(<<"d">>), "Tourist Trap", "Cafe")
ObjZeroLat == SkObj(Str(Zed), Str(PostalAddress), Num(0), Num(103), Str(<<"d">>), "Tourist Trap", "Cafe")
ObjOutOfRange == SkObj(Str(Zed), Str(PlainAddress), Num(200), Num(103), Str(<<"d">>), "Tourist Trap", "Cafe")
ObjPostal == SkObj(Str(Zed), Str(PostalAddress), Undef, Undef, Str(<<"d">>), "Tourist Trap", "Cafe")
ObjAddress == SkObj(Str(Zed), Str(PlainAddress), Undef, Undef, Undef, "Tourist Trap", "Cafe")
ObjNameOnly == SkObj(Str(Zed), Undef, Undef, Undef, Str(<<"d">>), "Tourist Trap", "Cafe")
ObjEmpty == SkObj(Undef, Undef, Undef, Undef, Undef, "", "")

SkObjects == {ObjFull, ObjZeroLat, ObjOutOfRange, ObjPostal, ObjAddress, ObjNameOnly, ObjEmpty}

\* The outcomes of ai.models.generateContent: a rejected promise (its message
\* naming the quota or the status 429, "quota", or not, "reject"), or a response
\* whose text is empty, is not JSON, is the JSON null, or is a JSON object.
SkResponses ==
    {[kind |-> k, obj |-> ObjEmpty] : k \in {"reject", "quota", "empty", "nonjson", "null"}}
    \cup {[kind |-> "object", obj |-> o] : o \in SkObjects}

\* One element of a directory (Nominatim search) answer.
DirResult(place, lat, lon, name, display, type, class, amenity) ==
    [place_id |-> place, lat |-> lat, lon |-> lon, name |-> name, display_name |-> display,
     type |-> type, class |-> class,
     address |-> [amenity |-> amenity, building |-> Undef, shop |-> Undef, tourism |-> Undef]]

Display1 == <<"Z", "e", "d", ",", "S", "G">>
DirGood == DirResult(1, <<"1">>, <<"1", "0", "3">>, Str(Zed), Display1, "cafe", "amenity", Str(<<"Z">>))
DirNoName == DirResult(2, <<"2">>, <<"1", "0", "4">>, Undef, Display1, "yes", "tourism", Undef)
DirZeroLat == DirResult(3, <<"0">>, <<"1", "0", "3">>, Str(Zed), Display1, "yes", "place", Undef)
DirBadLat == DirResult(4, <<>>, <<"1", "0", "3">>, Str(Zed), Display1, "yes", "place", Undef)

\* The outcomes of fetch(...).json() on the directory service: a failure
\* (network error or a body that is not JSON), or a ranked array.
DirResponses ==
    {[kind |-> "reject", data |-> <<>>]}
    \cup {[kind |-> "array", data |-> d] :
            d \in {<<>>, <<DirGood>>, <<DirNoName>>, <<DirZeroLat>>, <<DirBadLat>>}}


(* ------------------------------- state ------------------------------- *)
VARIABLES
    locations,            \* App: the Saved Set
    suggestedLocations,   \* App: the Suggested Set
    selectedLocationId,   \* App: the selection, NoId for null
    searchQuery,          \* App: the text of the search box
    searchResult,         \* App: the temporary search result, <<>> for null
    isSearching,          \* App
    isSearchingArea,      \* App
    runs,                 \* the handleGlobalSearch invocations, each at its await
    areaRuns,             \* the handleSearchArea invocations
    clock,                \* Date.now()
    suggestions,          \* SearchBar
    showSuggestions,      \* SearchBar
    loading,              \* SearchBar
    debounceTimer,        \* SearchBar: the value the pending timer will fetch, <<>> if none
    fetches,              \* SearchBar: the fetchSuggestions calls awaiting their answer
    modal,                \* App: isAddModalOpen, draftLocation; the AddLocationModal's state
    chat,                 \* the AIChatModal's state
    listView,             \* the ListView's state: activeTypes, activeCategories
    lastOp,               \* the handler that ran last
    ops                   \* the user operations so far, counted where a session is bounded

appVars == <<locations, suggestedLocations, selectedLocationId, searchQuery, searchResult,
             isSearching, isSearchingArea>>
barVars == <<suggestions, showSuggestions, loading, debounceTimer, fetches>>
vars == <<locations, suggestedLocations, selectedLocationId, searchQuery, searchResult,
          isSearching, isSearchingArea, runs, areaRuns, clock, suggestions,
          showSuggestions, loading, debounceTimer, fetches, modal, chat, listView,
          lastOp, ops>>

RunIds == 1..MaxRuns

\* INITIAL_VIEW_STATE.center, which currentMapCenter starts as.
MapCenter == [lat |-> Num(1), lng |-> Num(103)]

\* The AddLocationModal before it is first opened, with isAddModalOpen and
\* draftLocation of the App; fills and geocodes are the handleAiAutoFill and
\* performGeocode invocations awaiting their answer.
ModalAtStart ==
    [isOpen |-> FALSE, draft |-> <<>>, name |-> <<>>, description |-> Text(<<>>),
     category |-> "Hidden Gem", placeType |-> "Other", coordinate |-> MapCenter,
     isAiLoading |-> FALSE, isGeocoding |-> FALSE, fills |-> <<>>, geocodes |-> <<>>,
     reverses |-> <<>>, center |-> MapCenter]

\* The AIChatModal when mounted: messages holds what was said after the
\* greeting, sends the handleSend invocations awaiting an answer.
ChatAtStart == [input |-> <<>>, messages |-> <<>>, isLoading |-> FALSE, sends |-> <<>>]

\* One handleGlobalSearch invocation: its closure (query), its locals (result,
\* finalLat, finalLng), the tier whose answer it awaits and the query text it
\* sent there (sent), the tiers it has called (calls) and the alerts it has
\* raised.
IdleRun ==
    [pc |-> "idle", tier |-> "local", query |-> <<>>, result |-> <<>>,
     finalLat |-> Undef, finalLng |-> Undef, sent |-> <<>>, calls |-> <<>>,
     alerts |-> <<>>, outcome |-> "none", overlapped |-> FALSE]

Init ==
    /\ locations \in SavedSets
    /\ suggestedLocations = <<>>
    /\ selectedLocationId = NoId
    /\ searchQuery = <<>>
    /\ searchResult = <<>>
    /\ isSearching = FALSE
    /\ isSearchingArea = FALSE
    /\ runs = [i \in RunIds |-> IdleRun]
    /\ areaRuns = <<>>
    /\ clock = 0
    /\ suggestions = <<>>
    /\ showSuggestions = FALSE
    /\ loading = FALSE
    /\ debounceTimer = <<>>
    /\ fetches = <<>>
    /\ modal = ModalAtStart
    /\ chat = ChatAtStart
    /\ listView = [activeTypes |-> <<>>, activeCategories |-> <<>>]
    /\ lastOp = "other"
    /\ ops = 0

\* The handlers whose invocation lastOp records by name; any other is "other".
Observed == {"handleGlobalSearch", "handleReorder"}
Ran(name) == lastOp' = IF name \in Observed THEN name ELSE "other"

(* ------------------------- handleGlobalSearch ------------------------ *)
IsEmptyUntrimmed(q) == q = <<>>

\* !searchQuery.trim()
IsBlankQuery(q) == Trim(q) = <<>>

MatchesQuery(l, q) == Includes(ToLowerCase(l.name), ToLowerCase(q))

LocalMatchLast(locs, q) ==
    IF \E i \in 1..Len(locs) : MatchesQuery(locs[i], q)
    THEN CHOOSE i \in 1..Len(locs) :
            MatchesQuery(locs[i], q) /\ \A j \in (i + 1)..Len(locs) : ~MatchesQuery(locs[j], q)
    ELSE 0

\* locations.find(...): the index of the first match, 0 when there is none.
LocalMatch(locs, q) ==
    IF \E i \in 1..Len(locs) : MatchesQuery(locs[i], q)
    THEN CHOOSE i \in 1..Len(locs) :
            MatchesQuery(locs[i], q) /\ \A j \in 1..(i - 1) : ~MatchesQuery(locs[j], q)
    ELSE 0

\* JSON.parse(response.text), result.coordinates: what makes the try block throw.
AiThrows(r) == r.kind \in {"reject", "quota", "empty", "nonjson", "null"}

\* !finalLat || !finalLng
NeedsGeocode(lat, lng) == ~Truthy(lat) \/ ~Truthy(lng)

GeocodeQueryFullAddress(result) ==
    IF Truthy(result.address) THEN result.address.s
    ELSE JsString(result.name) \o SingaporeSuffix

\* The query of the tier-1 directory lookup.
GeocodeQuery(result) ==
    LET query == IF Truthy(result.address) THEN result.address.s
                 ELSE JsString(result.name) \o SingaporeSuffix
        postalMatch == IF result.address.k = "str" THEN PostalMatch(result.address.s) ELSE <<>>
    IN IF postalMatch # <<>> THEN postalMatch \o SingaporeSuffix ELSE query

EscalateRetry(tier) == tier

\* The tier a run turns to when the current one gave no usable coordinate.
Escalate(tier) == IF tier = "ai" THEN "geo" ELSE "fallback"

\* The Candidate of tiers 1 and 1a-1c.
AiCandidate(result, query, lat, lng) ==
    Loc(TempId,
        IF Truthy(result.name) THEN result.name.s ELSE query,
        lat, lng,
        IF Truthy(result.description) THEN Text(result.description.s)
        ELSE [pre |-> "Found at ", s |-> JsString(result.address)],
        IF result.category # "" THEN result.category ELSE "Hidden Gem",
        IF result.placeType # "" THEN result.placeType ELSE "Other",
        FALSE, result.address)

\* The Candidate of tier 2 with the place type inferred as for a suggestion.
FallbackCandidateTyped(best, query) ==
    Loc(TempId,
        IF Truthy(best.name) THEN best.name.s ELSE query,
        ParseFloat(best.lat), ParseFloat(best.lon),
        [pre |-> "Found: ", s |-> best.display_name],
        "Hidden Gem", IF best.type = "cafe" THEN "Cafe" ELSE "Other", FALSE, Undef)

\* The Candidate of tier 2.
FallbackCandidate(best, query) ==
    Loc(TempId,
        IF Truthy(best.name) THEN best.name.s ELSE query,
        ParseFloat(best.lat), ParseFloat(best.lon),
        [pre |-> "Found: ", s |-> best.display_name],
        "Hidden Gem", "Other", FALSE, Undef)

InFlight(r) == r.pc = "await"

Finished(r, outcome, alert) ==
    [r EXCEPT !.pc = "done", !.outcome = outcome, !.result = <<>>,
              !.finalLat = Undef, !.finalLng = Undef, !.sent = <<>>,
              !.alerts = IF alert = "" THEN @ ELSE Append(@, alert)]

FoundAndSaved(i, cand) ==
    /\ searchResult' = <<cand>>
    /\ selectedLocationId' = cand.id
    /\ isSearching' = FALSE
    /\ runs' = [runs EXCEPT ![i] = Finished(@, "found", "")]
    /\ locations' = Append(locations, cand)
    /\ UNCHANGED <<suggestedLocations, searchQuery, isSearchingArea>>

FoundUnlessSuperseded(i, cand) ==
    /\ searchResult' = IF \E j \in RunIds : j > i /\ runs[j].pc # "idle"
                       THEN searchResult ELSE <<cand>>
    /\ selectedLocationId' = cand.id
    /\ isSearching' = FALSE
    /\ runs' = [runs EXCEPT ![i] = Finished(@, "found", "")]
    /\ UNCHANGED <<locations, suggestedLocations, searchQuery, isSearchingArea>>

\* The run writes its Candidate, selects it and leaves through finally.
Found(i, cand) ==
    /\ searchResult' = <<cand>>
    /\ selectedLocationId' = cand.id
    /\ isSearching' = FALSE
    /\ runs' = [runs EXCEPT ![i] = Finished(@, "found", "")]
    /\ UNCHANGED <<locations, suggestedLocations, searchQuery, isSearchingArea>>

\* The catch without the finally block.
FailedWithoutFinally(i) ==
    /\ runs' = [runs EXCEPT ![i] = Finished(@, "failed", "search-failed")]
    /\ UNCHANGED <<locations, suggestedLocations, selectedLocationId, searchQuery,
                   searchResult, isSearching, isSearchingArea>>

\* catch: alert("Search failed. Please try again."), then finally.
Failed(i) ==
    /\ isSearching' = FALSE
    /\ runs' = [runs EXCEPT ![i] = Finished(@, "failed", "search-failed")]
    /\ UNCHANGED <<locations, suggestedLocations, selectedLocationId, searchQuery,
                   searchResult, isSearchingArea>>

\* alert(`Could not find a specific location for ...`), then finally.
NotFound(i) ==
    /\ isSearching' = FALSE
    /\ runs' = [runs EXCEPT ![i] = Finished(@, "notfound", "not-found")]
    /\ UNCHANGED <<locations, suggestedLocations, selectedLocationId, searchQuery,
                   searchResult, isSearchingArea>>

IssueNextNoting(i, result, lat, lng, q) ==
    /\ runs' = [runs EXCEPT ![i] =
                  [@ EXCEPT !.tier = Escalate(runs[i].tier), !.result = result,
                            !.finalLat = lat, !.finalLng = lng, !.sent = q,
                            !.alerts = Append(@, "search-failed"),
                            !.calls = Append(@, Escalate(runs[i].tier))]]
    /\ UNCHANGED appVars

\* The run issues the query q to the next tier and awaits its answer.  The
\* locals are kept while a later statement can still read them.
IssueNext(i, result, lat, lng, q) ==
    /\ runs' = [runs EXCEPT ![i] =
                  [@ EXCEPT !.tier = Escalate(runs[i].tier), !.result = result,
                            !.finalLat = lat, !.finalLng = lng, !.sent = q,
                            !.calls = Append(@, Escalate(runs[i].tier))]]
    /\ UNCHANGED appVars

\* handleSubmit of the SearchBar, which calls handleGlobalSearch, up to its
\* first await.
HandleGlobalSearch ==
    /\ Ran("handleGlobalSearch")
    /\ UNCHANGED listView
    /\ UNCHANGED <<modal, chat>>
    /\ showSuggestions' = FALSE
    /\ UNCHANGED <<areaRuns, clock, suggestions, loading, debounceTimer, fetches>>
    /\ IF IsBlankQuery(searchQuery)
       THEN UNCHANGED <<appVars, runs>>
       ELSE /\ \E i \in RunIds : runs[i].pc = "idle"
            /\ LET i == CHOOSE a \in RunIds :
                           runs[a].pc = "idle" /\ \A b \in 1..(a - 1) : runs[b].pc # "idle"
                   m == LocalMatch(locations, searchQuery)
                   busy == \E j \in RunIds : InFlight(runs[j])
               IN IF m # 0
                  THEN /\ selectedLocationId' = locations[m].id
                       /\ searchResult' = <<>>
                       /\ isSearching' = FALSE
                       /\ runs' = [runs EXCEPT ![i] =
                                     [@ EXCEPT !.pc = "done", !.query = searchQuery,
                                               !.outcome = "local"]]
                       /\ UNCHANGED <<locations, suggestedLocations, searchQuery,
                                      isSearchingArea>>
                  ELSE /\ isSearching' = TRUE
                       /\ runs' = [j \in RunIds |->
                                     IF j = i
                                     THEN [runs[i] EXCEPT !.pc = "await", !.tier = "ai",
                                              !.query = searchQuery, !.overlapped = busy,
                                              !.sent = searchQuery, !.calls = <<"ai">>]
                                     ELSE IF InFlight(runs[j])
                                          THEN [runs[j] EXCEPT !.overlapped = TRUE]
                                          ELSE runs[j]]
                       /\ UNCHANGED <<locations, suggestedLocations, selectedLocationId,
                                      searchQuery, searchResult, isSearchingArea>>

\* The answer of the structured-knowledge service lands.
AiResponse(i, r) ==
    /\ InFlight(runs[i]) /\ runs[i].tier = "ai"
    /\ Ran("aiResponse")
    /\ UNCHANGED listView
    /\ UNCHANGED <<modal, chat>>
    /\ UNCHANGED <<areaRuns, clock, barVars>>
    /\ IF AiThrows(r)
       THEN Failed(i)
       ELSE LET result == r.obj
                finalLat == result.coordinates.lat
                finalLng == result.coordinates.lng
            IN IF NeedsGeocode(finalLat, finalLng)
               THEN IssueNext(i, <<result>>, finalLat, finalLng, GeocodeQuery(result))
               ELSE Found(i, AiCandidate(result, runs[i].query, finalLat, finalLng))

\* The answer of the tier-1 directory lookup lands.
GeoResponse(i, r) ==
    /\ InFlight(runs[i]) /\ runs[i].tier = "geo"
    /\ Ran("geoResponse")
    /\ UNCHANGED listView
    /\ UNCHANGED <<modal, chat>>
    /\ UNCHANGED <<areaRuns, clock, barVars>>
    /\ IF r.kind = "reject"
       THEN Failed(i)
       ELSE LET result == runs[i].result[1]
                finalLat == IF Len(r.data) > 0 THEN ParseFloat(r.data[1].lat)
                            ELSE runs[i].finalLat
                finalLng == IF Len(r.data) > 0 THEN ParseFloat(r.data[1].lon)
                            ELSE runs[i].finalLng
            IN IF Truthy(finalLat) /\ Truthy(finalLng)
               THEN Found(i, AiCandidate(result, runs[i].query, finalLat, finalLng))
               ELSE IssueNext(i, <<>>, Undef, Undef, runs[i].query \o SingaporeSuffix)

\* The answer of the tier-2 directory lookup lands.
FallbackResponse(i, r) ==
    /\ InFlight(runs[i]) /\ runs[i].tier = "fallback"
    /\ Ran("fallbackResponse")
    /\ UNCHANGED listView
    /\ UNCHANGED <<modal, chat>>
    /\ UNCHANGED <<areaRuns, clock, barVars>>
    /\ IF r.kind = "reject"
       THEN Failed(i)
       ELSE IF Len(r.data) > 0
            THEN Found(i, FallbackCandidate(r.data[1], runs[i].query))
            ELSE NotFound(i)

\* handleInputChange without clearTimeout, the pending timer keeping its value.
HandleInputChangeKeepingTimer(newValue) ==
    /\ Ran("handleInputChange")
    /\ UNCHANGED listView
    /\ UNCHANGED <<modal, chat>>
    /\ searchQuery' = newValue
    /\ debounceTimer' = IF debounceTimer # <<>> THEN debounceTimer ELSE <<newValue>>
    /\ UNCHANGED <<locations, suggestedLocations, selectedLocationId, searchResult,
                   isSearching, isSearchingArea, runs, areaRuns, clock, suggestions,
                   showSuggestions, loading, fetches>>

\* handleInputChange of the SearchBar: onChange(newValue) and the debounce timer.
HandleInputChange(newValue) ==
    /\ Ran("handleInputChange")
    /\ UNCHANGED listView
    /\ UNCHANGED <<modal, chat>>
    /\ searchQuery' = newValue
    /\ debounceTimer' = <<newValue>>
    /\ UNCHANGED <<locations, suggestedLocations, selectedLocationId, searchResult,
                   isSearching, isSearchingArea, runs, areaRuns, clock, suggestions,
                   showSuggestions, loading, fetches>>

(* --------------------------- other App handlers --------------------- *)
Ids(locs) == {locs[i].id : i \in 1..Len(locs)}
Names(locs) == {locs[i].name : i \in 1..Len(locs)}

\* selectedLocation: the Location the card shows, <<>> for null.
SelectedLocation ==
    IF \E i \in 1..Len(locations) : locations[i].id = selectedLocationId
    THEN <<locations[CHOOSE i \in 1..Len(locations) :
                 locations[i].id = selectedLocationId
                 /\ \A j \in 1..(i - 1) : locations[j].id # selectedLocationId]>>
    ELSE IF \E i \in 1..Len(suggestedLocations) : suggestedLocations[i].id = selectedLocationId
    THEN <<suggestedLocations[CHOOSE i \in 1..Len(suggestedLocations) :
                 suggestedLocations[i].id = selectedLocationId
                 /\ \A j \in 1..(i - 1) : suggestedLocations[j].id # selectedLocationId]>>
    ELSE IF selectedLocationId = TempId THEN searchResult ELSE <<>>


\* handleLocationSelect: a marker or a list row is clicked.
HandleLocationSelect(id) ==
    /\ id \in Ids(locations) \cup Ids(suggestedLocations) \cup Ids(searchResult)
    /\ Ran("handleLocationSelect")
    /\ UNCHANGED listView
    /\ UNCHANGED <<modal, chat>>
    /\ selectedLocationId' = id
    /\ UNCHANGED <<locations, suggestedLocations, searchQuery, searchResult, isSearching,
                   isSearchingArea, runs, areaRuns, clock, barVars>>

\* onClose of the LocationCard.
CloseCard ==
    /\ selectedLocationId # NoId
    /\ Ran("closeCard")
    /\ UNCHANGED listView
    /\ UNCHANGED <<modal, chat>>
    /\ selectedLocationId' = NoId
    /\ UNCHANGED <<locations, suggestedLocations, searchQuery, searchResult, isSearching,
                   isSearchingArea, runs, areaRuns, clock, barVars>>

\* handleAddLocation: data is a Location whose id is still to be given, now
\* what Date.now() returns, which never runs backwards.
HandleAddLocation(data, now) ==
    /\ Len(locations) < MaxSaved
    /\ now \in clock..MaxClock
    /\ Ran("handleAddLocation")
    /\ UNCHANGED listView
    /\ UNCHANGED chat
    /\ clock' = now
    /\ LET newLocation == [data EXCEPT !.id = <<"date", now>>]
       IN /\ locations' = Append(locations, newLocation)
          /\ suggestedLocations' =
                SelectSeq(suggestedLocations, LAMBDA l : l.name # newLocation.name)
          /\ selectedLocationId' = newLocation.id
          /\ searchResult' = <<>>
    /\ UNCHANGED <<searchQuery, isSearching, isSearchingArea, runs, areaRuns, barVars>>

\* handleAddSearchResult: the card's Add button, shown for a place that is not saved.
HandleAddSearchResult(now) ==
    /\ SelectedLocation # <<>>
    /\ SelectedLocation[1].id \notin Ids(locations)
    /\ HandleAddLocation([SelectedLocation[1] EXCEPT !.visited = FALSE], now)
    /\ UNCHANGED modal

\* handleToggleVisited
HandleToggleVisited(id) ==
    /\ id \in Ids(locations)
    /\ Ran("handleToggleVisited")
    /\ UNCHANGED listView
    /\ UNCHANGED <<modal, chat>>
    /\ locations' = [i \in 1..Len(locations) |->
                       IF locations[i].id = id
                       THEN [locations[i] EXCEPT !.visited = ~locations[i].visited]
                       ELSE locations[i]]
    /\ UNCHANGED <<suggestedLocations, selectedLocationId, searchQuery, searchResult,
                   isSearching, isSearchingArea, runs, areaRuns, clock, barVars>>

\* The remove handler leaving the selection alone when it dismisses a suggestion.
HandleRemoveLocationKeepingSelection(id) ==
    /\ Ran("handleRemoveLocation")
    /\ UNCHANGED listView
    /\ UNCHANGED <<modal, chat>>
    /\ IF id \in Ids(locations)
       THEN /\ locations' = SelectSeq(locations, LAMBDA l : l.id # id)
            /\ selectedLocationId' = IF selectedLocationId = id THEN NoId
                                     ELSE selectedLocationId
            /\ UNCHANGED <<suggestedLocations, searchResult>>
       ELSE IF id \in Ids(suggestedLocations)
       THEN /\ suggestedLocations' = SelectSeq(suggestedLocations, LAMBDA l : l.id # id)
            /\ UNCHANGED <<locations, searchResult, selectedLocationId>>
       ELSE IF id \in Ids(searchResult)
       THEN /\ searchResult' = <<>>
            /\ selectedLocationId' = IF selectedLocationId = id THEN NoId
                                     ELSE selectedLocationId
            /\ UNCHANGED <<locations, suggestedLocations>>
       ELSE UNCHANGED <<locations, suggestedLocations, searchResult, selectedLocationId>>
    /\ UNCHANGED <<searchQuery, isSearching, isSearchingArea, runs, areaRuns, clock, barVars>>

\* handleRemoveLocation: the first of the Saved Set, the Suggested Set and the
\* temporary search result that holds the id loses it; the selection is
\* cleared in the branch that is taken.
HandleRemoveLocation(id) ==
    /\ Ran("handleRemoveLocation")
    /\ UNCHANGED listView
    /\ UNCHANGED <<modal, chat>>
    /\ IF id \in Ids(locations)
       THEN /\ locations' = SelectSeq(locations, LAMBDA l : l.id # id)
            /\ selectedLocationId' = IF selectedLocationId = id THEN NoId
                                     ELSE selectedLocationId
            /\ UNCHANGED <<suggestedLocations, searchResult>>
       ELSE IF id \in Ids(suggestedLocations)
       THEN /\ suggestedLocations' = SelectSeq(suggestedLocations, LAMBDA l : l.id # id)
            /\ selectedLocationId' = IF selectedLocationId = id THEN NoId
                                     ELSE selectedLocationId
            /\ UNCHANGED <<locations, searchResult>>
       ELSE IF id \in Ids(searchResult)
       THEN /\ searchResult' = <<>>
            /\ selectedLocationId' = IF selectedLocationId = id THEN NoId
                                     ELSE selectedLocationId
            /\ UNCHANGED <<locations, suggestedLocations>>
       ELSE UNCHANGED <<locations, suggestedLocations, searchResult, selectedLocationId>>
    /\ UNCHANGED <<searchQuery, isSearching, isSearchingArea, runs, areaRuns, clock, barVars>>

\* The permutations of a sequence.
Orders(s) ==
    {[i \in 1..Len(s) |-> s[f[i]]] :
        f \in {g \in [1..Len(s) -> 1..Len(s)] : \A a, b \in 1..Len(s) : g[a] = g[b] => a = b}}

\* toggleType and toggleCategory of the ListView: the filter buttons.
Toggled(prev, x) ==
    IF \E i \in 1..Len(prev) : prev[i] = x
    THEN SelectSeq(prev, LAMBDA t : t # x)
    ELSE Append(prev, x)

ToggleType(type) ==
    /\ Ran("toggleType")
    /\ listView' = [listView EXCEPT !.activeTypes = Toggled(@, type)]
    /\ UNCHANGED <<appVars, runs, areaRuns, clock, barVars, modal, chat>>

ToggleCategory(cat) ==
    /\ Ran("toggleCategory")
    /\ listView' = [listView EXCEPT !.activeCategories = Toggled(@, cat)]
    /\ UNCHANGED <<appVars, runs, areaRuns, clock, barVars, modal, chat>>

IsFiltered(lv) == Len(lv.activeTypes) > 0 \/ Len(lv.activeCategories) > 0

\* displayToVisit: the to-visit places that pass the active filters.
DisplayToVisit(locs, lv) ==
    SelectSeq(SelectSeq(locs, LAMBDA l : ~l.visited),
              LAMBDA l :
                  /\ ~(/\ Len(lv.activeTypes) > 0
                       /\ \A i \in 1..Len(lv.activeTypes) : lv.activeTypes[i] # l.placeType)
                  /\ ~(/\ Len(lv.activeCategories) > 0
                       /\ \A i \in 1..Len(lv.activeCategories) :
                              lv.activeCategories[i] # l.category))

\* The reorder handler with its test of the filters left out.
HandleReorderWhileFiltering(newOrder) ==
    /\ newOrder \in Orders(DisplayToVisit(locations, listView))
    /\ Ran("handleReorder")
    /\ UNCHANGED listView
    /\ UNCHANGED <<modal, chat>>
    /\ locations' = newOrder \o SelectSeq(locations, LAMBDA l : l.visited)
    /\ UNCHANGED <<suggestedLocations, selectedLocationId, searchQuery, searchResult,
                   isSearching, isSearchingArea, runs, areaRuns, clock, barVars>>

\* The reorder handler passing on the dragged places only.
HandleReorderDroppingVisited(newOrder) ==
    /\ newOrder \in Orders(DisplayToVisit(locations, listView))
    /\ Ran("handleReorder")
    /\ UNCHANGED listView
    /\ UNCHANGED <<modal, chat>>
    /\ locations' = IF ~IsFiltered(listView) THEN newOrder ELSE locations
    /\ UNCHANGED <<suggestedLocations, selectedLocationId, searchQuery, searchResult,
                   isSearching, isSearchingArea, runs, areaRuns, clock, barVars>>

\* handleReorder of the ListView, calling handleReorder of the App when no
\* filter is active: newOrder is an order of the places the list displays.
HandleReorder(newOrder) ==
    /\ newOrder \in Orders(DisplayToVisit(locations, listView))
    /\ Ran("handleReorder")
    /\ UNCHANGED listView
    /\ UNCHANGED <<modal, chat>>
    /\ locations' = IF ~IsFiltered(listView)
                    THEN newOrder \o SelectSeq(locations, LAMBDA l : l.visited)
                    ELSE locations
    /\ UNCHANGED <<suggestedLocations, selectedLocationId, searchQuery, searchResult,
                   isSearching, isSearchingArea, runs, areaRuns, clock, barVars>>

\* The name with tourism put before shop.
SuggestionNameTourismFirst(suggestion) ==
    LET a == suggestion.address
    IN IF Truthy(a.amenity) THEN a.amenity.s
       ELSE IF Truthy(a.building) THEN a.building.s
       ELSE IF Truthy(a.tourism) THEN a.tourism.s
       ELSE IF Truthy(a.shop) THEN a.shop.s
       ELSE FirstSegment(suggestion.display_name)

\* The name handleSuggestionSelect and handleSelect give a suggestion.
SuggestionName(suggestion) ==
    LET a == suggestion.address
    IN IF Truthy(a.amenity) THEN a.amenity.s
       ELSE IF Truthy(a.building) THEN a.building.s
       ELSE IF Truthy(a.shop) THEN a.shop.s
       ELSE IF Truthy(a.tourism) THEN a.tourism.s
       ELSE FirstSegment(suggestion.display_name)

SuggestionType(suggestion) ==
    IF suggestion.type = "restaurant" THEN "Restaurant"
    ELSE IF suggestion.type = "cafe" THEN "Cafe"
    ELSE IF suggestion.type = "bar" \/ suggestion.type = "pub" THEN "Bar"
    ELSE IF suggestion.class = "tourism" THEN "Activity"
    ELSE "Other"

\* The Candidate handleSuggestionSelect builds.
SuggestionCandidate(suggestion) ==
    Loc(TempId, SuggestionName(suggestion),
        ParseFloat(suggestion.lat), ParseFloat(suggestion.lon),
        [pre |-> "Found at: ", s |-> suggestion.display_name],
        "Hidden Gem", SuggestionType(suggestion), FALSE, Str(suggestion.display_name))

\* handleSelect of the SearchBar, which calls handleSuggestionSelect and then
\* onChange: a row of the dropdown is clicked.
HandleSuggestionSelect(suggestion) ==
    /\ showSuggestions
    /\ \E i \in 1..Len(suggestions) : suggestions[i] = suggestion
    /\ Ran("handleSuggestionSelect")
    /\ UNCHANGED listView
    /\ UNCHANGED <<modal, chat>>
    /\ searchResult' = <<SuggestionCandidate(suggestion)>>
    /\ selectedLocationId' = TempId
    /\ searchQuery' = IF SuggestionName(suggestion) # <<>> THEN SuggestionName(suggestion)
                      ELSE suggestion.display_name
    /\ showSuggestions' = FALSE
    /\ UNCHANGED <<locations, suggestedLocations, isSearching, isSearchingArea, runs,
                   areaRuns, clock, suggestions, loading, debounceTimer, fetches>>


(* --------------------------- handleSearchArea ------------------------ *)
\* The invocations in flight once the k-th has settled.
Without(seq, k) == [i \in 1..(Len(seq) - 1) |-> IF i < k THEN seq[i] ELSE seq[i + 1]]

AreaElement(id, lat, lon, name, amenity, tourism) ==
    [id |-> id, lat |-> lat, lon |-> lon,
     tags |-> [name |-> name, amenity |-> amenity, tourism |-> tourism]]

ElSaved == AreaElement(7, Num(1), Num(103), Ha, "cafe", "")
ElOther == AreaElement(8, Num(1), Num(104), <<"h", "a">>, "", "museum")
ElNew == AreaElement(9, Num(2), Num(104), Zed, "pub", "")

\* The outcomes of the Overpass request: fetch fails, the status is not 2xx,
\* the body has no elements member, or it has one.
AreaResponses ==
    {[kind |-> k, elements |-> <<>>] : k \in {"reject", "http-error", "no-elements"}}
    \cup {[kind |-> "elements", elements |-> e] : e \in {<<>>, <<ElSaved, ElOther>>, <<ElOther>>, <<ElNew>>}}

AreaType(el) ==
    IF el.tags.amenity = "restaurant" THEN "Restaurant"
    ELSE IF el.tags.amenity = "cafe" THEN "Cafe"
    ELSE IF el.tags.amenity = "bar" \/ el.tags.amenity = "pub" THEN "Bar"
    ELSE IF el.tags.tourism = "attraction" \/ el.tags.tourism = "museum" THEN "Activity"
    ELSE "Other"

AreaSuggestion(el) ==
    Loc(<<"sugg", el.id>>, el.tags.name, el.lat, el.lon, [pre |-> "Found nearby", s |-> <<>>],
        "Hidden Gem", AreaType(el), FALSE, Undef)

NewSuggestionsIgnoringCase(elements, saved) ==
    LET kept == SelectSeq(elements,
                          LAMBDA el : ToLowerCase(el.tags.name)
                                         \notin {ToLowerCase(n) : n \in Names(saved)})
    IN [i \in 1..Len(kept) |-> AreaSuggestion(kept[i])]

\* data.elements.filter(...).map(...), with the Saved Set of the closure.
NewSuggestions(elements, saved) ==
    LET kept == SelectSeq(elements, LAMBDA el : el.tags.name \notin Names(saved))
    IN [i \in 1..Len(kept) |-> AreaSuggestion(kept[i])]

\* handleSearchArea up to its await.
HandleSearchArea ==
    /\ Len(areaRuns) < MaxAreaRuns
    /\ Ran("handleSearchArea")
    /\ UNCHANGED listView
    /\ UNCHANGED <<modal, chat>>
    /\ isSearchingArea' = TRUE
    /\ areaRuns' = Append(areaRuns, [pc |-> "await", locations |-> locations])
    /\ UNCHANGED <<locations, suggestedLocations, selectedLocationId, searchQuery,
                   searchResult, isSearching, runs, clock, barVars>>

AreaResponseMerging(a, r) ==
    /\ a \in 1..Len(areaRuns) /\ areaRuns[a].pc = "await"
    /\ Ran("areaResponse")
    /\ UNCHANGED listView
    /\ UNCHANGED <<modal, chat>>
    /\ areaRuns' = Without(areaRuns, a)
    /\ isSearchingArea' = FALSE
    /\ suggestedLocations' =
          IF r.kind = "elements"
          THEN suggestedLocations \o NewSuggestions(r.elements, areaRuns[a].locations)
          ELSE suggestedLocations
    /\ UNCHANGED <<locations, selectedLocationId, searchQuery, searchResult, isSearching,
                   runs, clock, barVars>>

\* The answer of the Overpass request lands.
AreaResponse(a, r) ==
    /\ a \in 1..Len(areaRuns) /\ areaRuns[a].pc = "await"
    /\ Ran("areaResponse")
    /\ UNCHANGED listView
    /\ UNCHANGED <<modal, chat>>
    /\ areaRuns' = Without(areaRuns, a)
    /\ isSearchingArea' = FALSE
    /\ suggestedLocations' =
          IF r.kind = "elements" THEN NewSuggestions(r.elements, areaRuns[a].locations)
          ELSE suggestedLocations
    /\ UNCHANGED <<locations, selectedLocationId, searchQuery, searchResult, isSearching,
                   runs, clock, barVars>>

(* ------------------------------ SearchBar ---------------------------- *)
\* The calls in flight once a later call of fetchSuggestions has been made;
\* superseded is a note of the model, the code keeps none.
Superseded(fs) == [i \in 1..Len(fs) |-> [fs[i] EXCEPT !.superseded = TRUE]]

\* The debounce timer fires: fetchSuggestions(newValue) up to its await.
TimerFire ==
    /\ debounceTimer # <<>>
    /\ Ran("fetchSuggestions")
    /\ UNCHANGED listView
    /\ UNCHANGED <<modal, chat>>
    /\ debounceTimer' = <<>>
    /\ LET query == debounceTimer[1]
       IN IF query = <<>> \/ Len(query) < 3
          THEN /\ suggestions' = <<>>
               /\ fetches' = Superseded(fetches)
               /\ UNCHANGED loading
          ELSE /\ Len(fetches) < MaxFetches
               /\ loading' = TRUE
               /\ fetches' = Append(Superseded(fetches),
                                    [query |-> query, superseded |-> FALSE])
               /\ UNCHANGED suggestions
    /\ UNCHANGED <<appVars, runs, areaRuns, clock, showSuggestions>>

\* The answer to the k-th pending suggestion fetch lands.
SuggestResponse(k, r) ==
    /\ k \in 1..Len(fetches)
    /\ Ran("suggestResponse")
    /\ UNCHANGED listView
    /\ UNCHANGED <<modal, chat>>
    /\ fetches' = Without(fetches, k)
    /\ loading' = FALSE
    /\ IF r.kind = "reject"
       THEN UNCHANGED <<suggestions, showSuggestions>>
       ELSE /\ suggestions' = r.data
            /\ showSuggestions' = TRUE
    /\ UNCHANGED <<appVars, runs, areaRuns, clock, debounceTimer>>

\* handleClear
HandleClear ==
    /\ searchQuery # <<>>
    /\ Ran("handleClear")
    /\ UNCHANGED listView
    /\ UNCHANGED <<modal, chat>>
    /\ searchQuery' = <<>>
    /\ suggestions' = <<>>
    /\ showSuggestions' = FALSE
    /\ UNCHANGED <<locations, suggestedLocations, selectedLocationId, searchResult,
                   isSearching, isSearchingArea, runs, areaRuns, clock, loading,
                   debounceTimer, fetches>>

(* --------------------------- AddLocationModal ------------------------ *)
ShortAddress == <<"9", " ", "R", "d">>

\* An answer without coordinates whose address has no more than five characters.
ObjShortAddress ==
    SkObj(Undef, Str(ShortAddress), Undef, Undef, Str(<<"d">>), "Tourist Trap", "Cafe")

\* The outcomes of handleAiAutoFill's ai.models.generateContent.
FillResponses ==
    {[kind |-> k, obj |-> ObjEmpty] : k \in {"reject", "quota", "empty", "nonjson", "null"}}
    \cup {[kind |-> "object", obj |-> o] :
            o \in {ObjFull, ObjZeroLat, ObjPostal, ObjAddress, ObjShortAddress, ObjNameOnly}}

\* A place the chat offers: a Partial<Location> without coordinate.
ChatPlace(name, address) ==
    [name |-> name, address |-> address, coordinate |-> <<>>,
     description |-> Str(<<"d">>), category |-> "Tourist Trap", placeType |-> "Cafe"]

ChatPlaces ==
    {ChatPlace(Str(Zed), a) : a \in {Undef, Str(PostalAddress), Str(PlainAddress), Str(ShortAddress)}}

\* The directory answers to performGeocode (limit=5): a failure, an empty
\* array, one element, and two elements of which only the second is an amenity.
ModalDirResponses ==
    {[kind |-> "reject", data |-> <<>>]}
    \cup {[kind |-> "array", data |-> d] : d \in {<<>>, <<DirNoName>>, <<DirZeroLat, DirGood>>}}

\* The names typed into the modal's name field.
ModalNames == {<<" ">>, Zed}

\* The q of performGeocode.
PerformGeocodeQuery(queryName, queryAddress) ==
    LET postalMatch == IF Truthy(queryAddress) THEN PostalMatch(queryAddress.s) ELSE <<>>
    IN IF ~Truthy(queryAddress) THEN queryName \o SingaporeSuffix
       ELSE IF postalMatch # <<>> THEN postalMatch \o SingaporeSuffix
       ELSE IF Len(queryAddress.s) > 5 THEN queryAddress.s \o SingaporeSuffix
       ELSE queryName \o SingaporeSuffix

\* The calls in flight once the modal has been closed; stale is a note of the
\* model that a call was started in an opening that has ended, the code keeps
\* none.
Stale(calls) == [i \in 1..Len(calls) |-> [calls[i] EXCEPT !.stale = TRUE]]

\* The modal m closed, with whatever it awaits still in flight.
Closed(m) ==
    [m EXCEPT !.isOpen = FALSE, !.fills = Stale(@), !.geocodes = Stale(@),
              !.reverses = Stale(@)]

\* performGeocode up to its await: the modal m with the call in flight.
PerformGeocode(m, queryName, queryAddress) ==
    [m EXCEPT !.isGeocoding = TRUE,
              !.geocodes = Append(@, [q |-> PerformGeocodeQuery(queryName, queryAddress),
                                      queryName |-> queryName,
                                      queryAddress |-> queryAddress,
                                      stale |-> FALSE])]

IsPoi(d) ==
    \/ d.class \in {"amenity", "tourism", "shop", "leisure"}
    \/ d.type \in {"restaurant", "cafe", "bar"}

\* bestMatch of performGeocode, for a non-empty answer.
BestMatch(data, queryAddress) ==
    IF Truthy(queryAddress) THEN data[1]
    ELSE IF \E i \in 1..Len(data) : IsPoi(data[i])
    THEN data[CHOOSE i \in 1..Len(data) : IsPoi(data[i]) /\ \A j \in 1..(i - 1) : ~IsPoi(data[j])]
    ELSE data[1]

\* What the App and the SearchBar hold, which the modal never touches but
\* through onAdd.
AppState == <<appVars, runs, areaRuns, clock, barVars>>

\* The answer to a performGeocode call lands.
GeocodeResponse(k, r) ==
    /\ k \in 1..Len(modal.geocodes)
    /\ Ran("geocodeResponse")
    /\ UNCHANGED listView
    /\ LET g == modal.geocodes[k]
           rest == [modal EXCEPT !.geocodes = Without(@, k), !.isGeocoding = FALSE]
       IN modal' = IF r.kind = "array" /\ Len(r.data) > 0
                   THEN LET bestMatch == BestMatch(r.data, g.queryAddress)
                        IN [rest EXCEPT !.coordinate = [lat |-> ParseFloat(bestMatch.lat),
                                                        lng |-> ParseFloat(bestMatch.lon)]]
                   ELSE rest
    /\ UNCHANGED <<AppState, chat>>

\* handleOpenAddModal and the modal's effect on a fresh open.
HandleOpenAddModal ==
    /\ ~modal.isOpen
    /\ Ran("handleOpenAddModal")
    /\ UNCHANGED listView
    /\ modal' = [modal EXCEPT !.isOpen = TRUE, !.draft = <<>>, !.coordinate = modal.center,
                              !.name = <<>>, !.description = Text(<<>>),
                              !.category = "Hidden Gem", !.placeType = "Other"]
    /\ UNCHANGED <<AppState, chat>>

\* handleAddFromChat and the modal's effect on a prefilled open: a place with
\* a name and no coordinate is geocoded.
HandleAddFromChat(place) ==
    /\ ~modal.isOpen
    /\ Len(modal.geocodes) < MaxGeocodes
    /\ Ran("handleAddFromChat")
    /\ UNCHANGED listView
    /\ LET filled == [modal EXCEPT !.isOpen = TRUE, !.draft = <<place>>,
                         !.name = IF Truthy(place.name) THEN place.name.s ELSE <<>>,
                         !.description = IF Truthy(place.description)
                                         THEN Text(place.description.s) ELSE Text(<<>>),
                         !.category = IF place.category # "" THEN place.category
                                      ELSE "Hidden Gem",
                         !.placeType = IF place.placeType # "" THEN place.placeType
                                       ELSE "Other",
                         !.coordinate = IF place.coordinate # <<>> THEN place.coordinate[1]
                                        ELSE modal.center]
       IN modal' = IF Truthy(place.name) /\ place.coordinate = <<>>
                   THEN PerformGeocode(filled, place.name.s, place.address)
                   ELSE filled
    /\ UNCHANGED <<AppState, chat>>

\* onClose of the modal.
CloseModal ==
    /\ modal.isOpen
    /\ Ran("closeModal")
    /\ UNCHANGED listView
    /\ modal' = Closed(modal)
    /\ UNCHANGED <<AppState, chat>>

\* onChange of the name field.
SetName(newName) ==
    /\ modal.isOpen
    /\ Ran("setName")
    /\ UNCHANGED listView
    /\ modal' = [modal EXCEPT !.name = newName]
    /\ UNCHANGED <<AppState, chat>>

\* onChange of the description field.
SetDescription(newDescription) ==
    /\ modal.isOpen
    /\ Ran("setDescription")
    /\ UNCHANGED listView
    /\ modal' = [modal EXCEPT !.description = Text(newDescription)]
    /\ UNCHANGED <<AppState, chat>>

\* handleAiAutoFill up to its await; its button is disabled while isAiLoading.
HandleAiAutoFill ==
    /\ modal.isOpen
    /\ ~modal.isAiLoading
    /\ Trim(modal.name) # <<>>
    /\ Ran("handleAiAutoFill")
    /\ UNCHANGED listView
    /\ modal' = [modal EXCEPT !.isAiLoading = TRUE, !.isGeocoding = TRUE,
                              !.fills = Append(@, [name |-> modal.name, stale |-> FALSE])]
    /\ UNCHANGED <<AppState, chat>>

QuotaNote == [pre |-> "Auto-fill unavailable: AI quota exceeded. Please enter details manually.",
              s |-> <<>>]
NoDetailsNote == [pre |-> "Could not fetch AI details. Please enter manually.", s |-> <<>>]

\* The answer to handleAiAutoFill's service call lands: aiPromise settles and
\* the rest of the handler runs, through performGeocode's first part when the
\* answer has no usable coordinates.
FillResponse(k, r) ==
    /\ k \in 1..Len(modal.fills)
    /\ Ran("fillResponse")
    /\ UNCHANGED listView
    /\ LET name == modal.fills[k].name
           rest == [modal EXCEPT !.fills = Without(@, k), !.isAiLoading = FALSE]
           result == IF r.kind = "object" THEN r.obj ELSE ObjEmpty
       IN IF r.kind = "quota"
          THEN modal' = [rest EXCEPT !.description = QuotaNote, !.isGeocoding = FALSE]
          ELSE IF r.kind \in {"reject", "nonjson", "null"}
          THEN modal' = [rest EXCEPT !.description = NoDetailsNote, !.isGeocoding = FALSE]
          ELSE LET filled ==
                     [rest EXCEPT
                        !.description = IF Truthy(result.description)
                                        THEN Text(result.description.s) ELSE Text(<<>>),
                        !.category = IF result.category # "" THEN result.category
                                     ELSE "Hidden Gem",
                        !.placeType = IF result.placeType # "" THEN result.placeType
                                      ELSE "Other"]
               IN IF Truthy(result.coordinates.lat) /\ Truthy(result.coordinates.lng)
                  THEN modal' = [filled EXCEPT !.coordinate = result.coordinates,
                                               !.isGeocoding = FALSE]
                  ELSE /\ Len(modal.geocodes) < MaxGeocodes
                       /\ LET addressToGeocode ==
                                 IF Truthy(result.address) THEN result.address
                                 ELSE Str(name \o SingaporeSuffix)
                          IN modal' = [PerformGeocode(filled, name, addressToGeocode)
                                         EXCEPT !.geocodes[Len(modal.geocodes) + 1].stale =
                                                   modal.fills[k].stale]
    /\ UNCHANGED <<AppState, chat>>

\* The literals performReverseGeocode compares the amenity with, and the
\* name it falls back to.
RestaurantWord == <<"r", "e", "s", "t", "a", "u", "r", "a", "n", "t">>
CafeWord == <<"c", "a", "f", "e">>
BarWord == <<"b", "a", "r">>
PubWord == <<"p", "u", "b">>
UnknownLocation ==
    <<"U", "n", "k", "n", "o", "w", "n", " ", "L", "o", "c", "a", "t", "i", "o", "n">>

\* The fields of a reverse-lookup answer that performReverseGeocode reads.
ReverseResult(name, amenity, building, tourism, shop, road) ==
    [name |-> name,
     address |-> [amenity |-> amenity, building |-> building, tourism |-> tourism,
                  shop |-> shop, road |-> road]]

RevNamedCafe == ReverseResult(Str(Zed), Str(CafeWord), Undef, Undef, Undef, Undef)
RevRestaurant == ReverseResult(Undef, Str(RestaurantWord), Str(Ha), Undef, Undef, Undef)
RevBar == ReverseResult(Undef, Str(BarWord), Undef, Undef, Undef, Str(Ha))
RevPub == ReverseResult(Undef, Str(PubWord), Undef, Str(Ha), Undef, Undef)
RevBuilding == ReverseResult(Undef, Undef, Str(Ha), Str(Zed), Undef, Undef)
RevTourism == ReverseResult(Undef, Undef, Undef, Str(Zed), Str(Ha), Undef)
RevShop == ReverseResult(Undef, Undef, Undef, Undef, Str(Ha), Str(Zed))
RevRoad == ReverseResult(Str(<<>>), Undef, Undef, Undef, Undef, Str(Zed))
RevBare == ReverseResult(Undef, Undef, Undef, Undef, Undef, Undef)

\* The outcomes of performReverseGeocode's fetch and res.json().
ReverseResponses ==
    {[kind |-> k, data |-> RevBare] : k \in {"reject", "null"}}
    \cup {[kind |-> "object", data |-> d] :
            d \in {RevNamedCafe, RevRestaurant, RevBar, RevPub, RevBuilding, RevTourism,
                   RevShop, RevRoad, RevBare}}

\* The point of the map that is clicked.
ClickPoint == [lat |-> Num(2), lng |-> Num(104)]

\* placeName of performReverseGeocode: the first truthy operand of the chain.
PlaceName(data) ==
    IF Truthy(data.name) THEN data.name.s
    ELSE IF Truthy(data.address.amenity) THEN data.address.amenity.s
    ELSE IF Truthy(data.address.building) THEN data.address.building.s
    ELSE IF Truthy(data.address.tourism) THEN data.address.tourism.s
    ELSE IF Truthy(data.address.shop) THEN data.address.shop.s
    ELSE IF Truthy(data.address.road) THEN data.address.road.s
    ELSE UnknownLocation

\* The type performReverseGeocode infers: none when the amenity is not one of
\* its three literals, and placeType then stays as it is.
InferredType(data, placeType) ==
    IF data.address.amenity = Str(RestaurantWord) THEN "Restaurant"
    ELSE IF data.address.amenity = Str(CafeWord) THEN "Cafe"
    ELSE IF data.address.amenity = Str(BarWord) THEN "Bar"
    ELSE placeType

\* handleMapClick and the modal's effect on an open with a coordinate and no
\* name: performReverseGeocode up to its await.
HandleMapClick(coordinate) ==
    /\ ~modal.isOpen
    /\ Len(modal.reverses) < MaxGeocodes
    /\ Ran("handleMapClick")
    /\ UNCHANGED listView
    /\ modal' = [modal EXCEPT !.isOpen = TRUE,
                              !.draft = <<[coordinate |-> coordinate]>>,
                              !.name = <<>>, !.description = Text(<<>>),
                              !.category = "Hidden Gem", !.placeType = "Other",
                              !.coordinate = coordinate,
                              !.isGeocoding = TRUE,
                              !.reverses = Append(@, [coord |-> coordinate, stale |-> FALSE])]
    /\ UNCHANGED <<AppState, chat>>

\* The answer to a performReverseGeocode call lands.
ReverseResponse(k, r) ==
    /\ k \in 1..Len(modal.reverses)
    /\ Ran("reverseResponse")
    /\ UNCHANGED listView
    /\ LET rest == [modal EXCEPT !.reverses = Without(@, k), !.isGeocoding = FALSE]
       IN modal' = IF r.kind = "object"
                   THEN [rest EXCEPT !.name = PlaceName(r.data),
                                     !.placeType = InferredType(r.data, modal.placeType)]
                   ELSE rest
    /\ UNCHANGED <<AppState, chat>>

\* Where the map can come to rest.
MapCenters == {MapCenter, ClickPoint}

\* The effect of the modal (its dependencies are isOpen, prefillData and
\* currentCenter) run on the open modal m with the centre c: the form is
\* initialised from the draft, and the draft's lookup is started.
Effect(m, c) ==
    IF m.draft = <<>>
    THEN [m EXCEPT !.coordinate = c, !.name = <<>>, !.description = Text(<<>>),
                   !.category = "Hidden Gem", !.placeType = "Other"]
    ELSE IF "name" \in DOMAIN m.draft[1]
    THEN LET place == m.draft[1]
             filled == [m EXCEPT
                          !.name = IF Truthy(place.name) THEN place.name.s ELSE <<>>,
                          !.description = IF Truthy(place.description)
                                          THEN Text(place.description.s) ELSE Text(<<>>),
                          !.category = IF place.category # "" THEN place.category
                                       ELSE "Hidden Gem",
                          !.placeType = IF place.placeType # "" THEN place.placeType
                                        ELSE "Other",
                          !.coordinate = IF place.coordinate # <<>> THEN place.coordinate[1]
                                         ELSE c]
         IN IF Truthy(place.name) /\ place.coordinate = <<>>
            THEN PerformGeocode(filled, place.name.s, place.address)
            ELSE filled
    ELSE [m EXCEPT !.name = <<>>, !.description = Text(<<>>),
                   !.category = "Hidden Gem", !.placeType = "Other",
                   !.coordinate = m.draft[1].coordinate,
                   !.isGeocoding = TRUE,
                   !.reverses = Append(@, [coord |-> m.draft[1].coordinate,
                                           stale |-> FALSE])]

\* onCenterChange of the MapBoard, which is setCurrentMapCenter: the map has
\* come to rest at c; the effect of the modal runs again when it is open.
HandleCenterChange(c) ==
    /\ c # modal.center
    /\ Len(modal.geocodes) < MaxGeocodes
    /\ Len(modal.reverses) < MaxGeocodes
    /\ Ran("onCenterChange")
    /\ UNCHANGED listView
    /\ modal' = IF modal.isOpen THEN Effect([modal EXCEPT !.center = c], c)
                ELSE [modal EXCEPT !.center = c]
    /\ UNCHANGED <<AppState, chat>>

\* The placeType buttons of the form.
SetPlaceType(type) ==
    /\ modal.isOpen
    /\ Ran("setPlaceType")
    /\ UNCHANGED listView
    /\ modal' = [modal EXCEPT !.placeType = type]
    /\ UNCHANGED <<AppState, chat>>

\* The suggestions of the dropdown: one for each source of the name.
SugAmenity == [DirGood EXCEPT !.address.building = Str(Ha)]
SugBuilding == [DirNoName EXCEPT !.address.building = Str(Ha), !.address.tourism = Str(Zed)]
SugShop == [DirNoName EXCEPT !.address.shop = Str(Ha), !.address.tourism = Str(Zed)]
SugTourism == [DirNoName EXCEPT !.address.tourism = Str(HaLo)]

\* The outcomes of fetchSuggestions' fetch and res.json().
BarResponses ==
    {[kind |-> "reject", data |-> <<>>]}
    \cup {[kind |-> "array", data |-> d] :
            d \in {<<>>, <<SugAmenity, SugBuilding>>, <<SugShop, SugTourism>>, <<DirNoName>>}}

\* handleSubmit of the modal: the form submits only with its required fields
\* filled and its button enabled; onAdd is handleAddLocation.
HandleSubmit(now) ==
    /\ modal.isOpen
    /\ ~modal.isGeocoding
    /\ modal.name # <<>>
    /\ modal.description # Text(<<>>)
    /\ HandleAddLocation(Loc(NoId, modal.name, modal.coordinate.lat, modal.coordinate.lng,
                             modal.description, modal.category, modal.placeType,
                             FALSE, Undef), now)
    /\ modal' = Closed([modal EXCEPT !.name = <<>>, !.description = Text(<<>>),
                                     !.category = "Hidden Gem", !.placeType = "Other"])

(* ------------------------------ AIChatModal -------------------------- *)
\* A text of the chat: what it says and its length.
ChatText(id, length) == [id |-> id, length |-> length]

NoRecommendations == ChatText("I couldn't find any specific recommendations.", 45)
ChatErrorNote == ChatText("Sorry, I encountered an error. Please try again.", 48)
ChatQuotaNote ==
    ChatText("I've reached my daily usage limit for AI responses. Please try again later.", 75)
ChatRephraseNote ==
    ChatText("I'm having trouble processing that request. Please try rephrasing.", 66)
ShortAnswer == ChatText("short answer", 12)
LongAnswer == ChatText("long answer", 60)

\* What is typed into the chat's input.
ChatInputs == {<<" ">>, <<"h", "i">>}

\* The outcomes of the first generateContent of handleSend: a rejection whose
\* message names the quota or 429 ("quota"), names 400 ("bad-request") or
\* neither ("reject"), or a response with an empty, a short or a long text.
ChatSearchResponses ==
    {[kind |-> k, text |-> NoRecommendations] : k \in {"reject", "quota", "bad-request", "empty"}}
    \cup {[kind |-> "text", text |-> t] : t \in {ShortAnswer, LongAnswer}}

\* The outcomes of the second generateContent: a rejection, a response without
\* function calls, or a display_places call with its places.
ChatExtractResponses ==
    {[kind |-> k, places |-> <<>>] : k \in {"reject", "quota", "no-calls"}}
    \cup {[kind |-> "calls", places |-> <<ChatPlace(Str(Zed), Str(PostalAddress))>>]}

ChatMessage(role, text, places) == [role |-> role, text |-> text, placeSuggestions |-> places]

\* onChange of the chat's input.
SetInput(newInput) ==
    /\ Ran("setInput")
    /\ UNCHANGED listView
    /\ chat' = [chat EXCEPT !.input = newInput]
    /\ UNCHANGED <<AppState, modal>>

\* The send handler without its test of isLoading.
HandleSendWhileLoading ==
    /\ Ran("handleSend")
    /\ UNCHANGED listView
    /\ chat' = IF Trim(chat.input) = <<>>
               THEN chat
               ELSE [chat EXCEPT
                       !.input = <<>>,
                       !.messages = Append(@, ChatMessage("user",
                                                          ChatText("typed", Len(chat.input)),
                                                          <<>>)),
                       !.isLoading = TRUE,
                       !.sends = Append(@, [stage |-> "search", text |-> NoRecommendations])]
    /\ UNCHANGED <<AppState, modal>>

\* handleSend up to its first await: it returns at once on a blank input or
\* while isLoading.
HandleSend ==
    /\ Ran("handleSend")
    /\ UNCHANGED listView
    /\ chat' = IF Trim(chat.input) = <<>> \/ chat.isLoading
               THEN chat
               ELSE [chat EXCEPT
                       !.input = <<>>,
                       !.messages = Append(@, ChatMessage("user",
                                                          ChatText("typed", Len(chat.input)),
                                                          <<>>)),
                       !.isLoading = TRUE,
                       !.sends = Append(@, [stage |-> "search", text |-> NoRecommendations])]
    /\ UNCHANGED <<AppState, modal>>

\* The catch of handleSend: the message it shows for a rejection.
ChatErrorMessage(kind) ==
    IF kind = "quota" THEN ChatQuotaNote
    ELSE IF kind = "bad-request" THEN ChatRephraseNote
    ELSE ChatErrorNote

\* The answer to the first generateContent lands: a text of more than 50
\* characters goes on to the extraction call.
ChatSearchResponse(k, r) ==
    /\ k \in 1..Len(chat.sends) /\ chat.sends[k].stage = "search"
    /\ Ran("chatSearchResponse")
    /\ UNCHANGED listView
    /\ LET text == IF r.kind = "text" THEN r.text ELSE NoRecommendations
       IN chat' =
            IF r.kind \in {"reject", "quota", "bad-request"}
            THEN [chat EXCEPT !.messages = Append(@, ChatMessage("model", ChatErrorMessage(r.kind),
                                                                 <<>>)),
                              !.isLoading = FALSE, !.sends = Without(@, k)]
            ELSE IF text.length > 50
            THEN [chat EXCEPT !.sends[k] = [stage |-> "extract", text |-> text]]
            ELSE [chat EXCEPT !.messages = Append(@, ChatMessage("model", text, <<>>)),
                              !.isLoading = FALSE, !.sends = Without(@, k)]
    /\ UNCHANGED <<AppState, modal>>

\* The extraction answer with a failure handled by the catch of the whole send.
ChatExtractResponseFailing(k, r) ==
    /\ k \in 1..Len(chat.sends) /\ chat.sends[k].stage = "extract"
    /\ Ran("chatExtractResponse")
    /\ UNCHANGED listView
    /\ chat' = [chat EXCEPT
                  !.messages =
                      Append(@, IF r.kind \in {"reject", "quota"}
                                THEN ChatMessage("model", ChatErrorMessage(r.kind), <<>>)
                                ELSE ChatMessage("model", chat.sends[k].text,
                                                 IF r.kind = "calls" THEN r.places ELSE <<>>)),
                  !.isLoading = FALSE, !.sends = Without(@, k)]
    /\ UNCHANGED <<AppState, modal>>

\* The answer to the extraction call lands: a failure is logged and the text
\* is shown without places.
ChatExtractResponse(k, r) ==
    /\ k \in 1..Len(chat.sends) /\ chat.sends[k].stage = "extract"
    /\ Ran("chatExtractResponse")
    /\ UNCHANGED listView
    /\ chat' = [chat EXCEPT
                  !.messages = Append(@, ChatMessage("model", chat.sends[k].text,
                                                     IF r.kind = "calls" THEN r.places ELSE <<>>)),
                  !.isLoading = FALSE, !.sends = Without(@, k)]
    /\ UNCHANGED <<AppState, modal>>

(* --------------------------- specifications -------------------------- *)
Still == UNCHANGED ops
User == ops < MaxOps /\ ops' = ops + 1

\* The text search: typing, submitting, removing a place, and the answers of
\* the remote services, with up to MaxRuns invocations overlapping, in sessions
\* of at most MaxOps user operations.
Next ==
    \/ User /\ HandleGlobalSearch
    \/ User /\ \E q \in Queries : HandleInputChange(q)
    \/ User /\ \E id \in Ids(locations) : HandleRemoveLocation(id)
    \/ Still /\ \E i \in RunIds, r \in SkResponses : AiResponse(i, r)
    \/ Still /\ \E i \in RunIds, r \in DirResponses : GeoResponse(i, r)
    \/ Still /\ \E i \in RunIds, r \in DirResponses : FallbackResponse(i, r)

Spec == Init /\ [][Next]_vars

\* What the AddLocationModal submits to handleAddLocation.
ModalForms ==
    {Loc(NoId, Zed, Num(1), Num(103), Text(<<>>), "Hidden Gem", "Other", FALSE, Undef)}

\* The inputs of the sessions of the whole application: one answer of each kind.
AppQueries == {<<" ">>, <<"h", "a", " ">>, <<"z", "e", "d">>}
AppSkResponses ==
    {r \in SkResponses :
        r.kind = "reject" \/ (r.kind = "object" /\ r.obj \in {ObjFull, ObjNameOnly})}
AppDirResponses == {r \in DirResponses : r.kind = "array" /\ r.data \in {<<>>, <<DirGood>>}}
AppAreaResponses ==
    {r \in AreaResponses :
        r.kind = "http-error" \/ (r.kind = "elements" /\ r.elements # <<>>)}

\* The id of a place that is in no collection.
GoneId == <<"gone", 0>>

\* The whole application: every handler of the App and of the SearchBar, in
\* sessions of at most MaxOps user operations, the answers landing in any order.
NextApp ==
    \/ User /\ HandleGlobalSearch
    \/ User /\ \E q \in AppQueries : HandleInputChange(q)
    \/ User /\ \E id \in Ids(locations) \cup Ids(suggestedLocations) \cup Ids(searchResult) :
                  HandleLocationSelect(id)
    \/ User /\ \E id \in Ids(locations) \cup Ids(suggestedLocations) \cup Ids(searchResult)
                          \cup {GoneId} : HandleRemoveLocation(id)
    \/ User /\ \E id \in Ids(locations) : HandleToggleVisited(id)
    \/ User /\ CloseCard
    \/ User /\ \E d \in ModalForms, now \in 0..MaxClock :
                  HandleAddLocation(d, now) /\ UNCHANGED modal
    \/ User /\ \E now \in 0..MaxClock : HandleAddSearchResult(now)
    \/ User /\ \E o \in Orders(SelectSeq(locations, LAMBDA l : ~l.visited)) : HandleReorder(o)
    \/ User /\ \E i \in 1..Len(suggestions) : HandleSuggestionSelect(suggestions[i])
    \/ User /\ HandleSearchArea
    \/ User /\ HandleClear
    \/ Still /\ \E i \in RunIds, r \in AppSkResponses : AiResponse(i, r)
    \/ Still /\ \E i \in RunIds, r \in AppDirResponses : GeoResponse(i, r)
    \/ Still /\ \E i \in RunIds, r \in AppDirResponses : FallbackResponse(i, r)
    \/ Still /\ \E a \in 1..MaxAreaRuns, r \in AppAreaResponses : AreaResponse(a, r)
    \/ Still /\ TimerFire
    \/ Still /\ \E k \in 1..MaxFetches, r \in AppDirResponses : SuggestResponse(k, r)

SpecApp == Init /\ [][NextApp]_vars

\* The answers to the text search in the sessions of the modals: a quota
\* failure and the answers without coordinates, an empty and a good directory
\* answer.
ModalsSkResponses ==
    {r \in SkResponses :
        r.kind = "quota" \/ (r.kind = "object" /\ r.obj \in {ObjPostal, ObjAddress, ObjNameOnly})}
ModalsDirResponses == {r \in DirResponses : r.kind = "array" /\ r.data \in {<<>>, <<DirGood>>}}

\* The add-location modal and the chat beside the text search, in sessions of
\* at most MaxOps user operations, the answers landing in any order.
NextModals ==
    \/ User /\ HandleOpenAddModal
    \/ User /\ \E place \in ChatPlaces : HandleAddFromChat(place)
    \/ User /\ CloseModal
    \/ User /\ \E n \in ModalNames : SetName(n)
    \/ User /\ SetDescription(<<"d">>)
    \/ User /\ HandleAiAutoFill
    \/ User /\ \E now \in 0..MaxClock : HandleSubmit(now)
    \/ User /\ HandleInputChange(<<"z", "e", "d">>)
    \/ User /\ HandleGlobalSearch
    \/ User /\ \E t \in ChatInputs : SetInput(t)
    \/ User /\ HandleSend
    \/ Still /\ \E r \in ChatSearchResponses : ChatSearchResponse(1, r)
    \/ Still /\ \E r \in ChatExtractResponses : ChatExtractResponse(1, r)
    \/ Still /\ \E k \in 1..MaxGeocodes, r \in ModalDirResponses : GeocodeResponse(k, r)
    \/ Still /\ \E r \in FillResponses : FillResponse(1, r)
    \/ Still /\ \E i \in RunIds, r \in ModalsSkResponses : AiResponse(i, r)
    \/ Still /\ \E i \in RunIds, r \in ModalsDirResponses : GeoResponse(i, r)
    \/ Still /\ \E i \in RunIds, r \in ModalsDirResponses : FallbackResponse(i, r)

SpecModals == Init /\ [][NextModals]_vars

\* The place types the form's buttons are pressed for.
PressedTypes == {"Bar"}

\* The add-location modal alone: opened from the button, by a click on the
\* map or from the chat, filled by hand, by the reverse lookup or by the auto-fill, closed or
\* submitted, in sessions of at most MaxOps user operations, the answers
\* landing in any order.
NextAddModal ==
    \/ User /\ HandleOpenAddModal
    \/ User /\ HandleMapClick(ClickPoint)
    \/ User /\ \E place \in ChatPlaces : HandleAddFromChat(place)
    \/ User /\ \E c \in MapCenters : HandleCenterChange(c)
    \/ User /\ CloseModal
    \/ User /\ \E n \in ModalNames : SetName(n)
    \/ User /\ SetDescription(<<"d">>)
    \/ User /\ \E t \in PressedTypes : SetPlaceType(t)
    \/ User /\ HandleAiAutoFill
    \/ User /\ \E now \in 0..MaxClock : HandleSubmit(now)
    \/ Still /\ \E k \in 1..MaxGeocodes, r \in ReverseResponses : ReverseResponse(k, r)
    \/ Still /\ \E k \in 1..MaxGeocodes, r \in ModalDirResponses : GeocodeResponse(k, r)
    \/ Still /\ \E r \in FillResponses : FillResponse(1, r)

SpecAddModal == Init /\ [][NextAddModal]_vars

\* The search bar alone: typing, clearing, picking a suggestion, the debounce
\* timer firing and the answers to the suggestion fetches landing, in sessions
\* of at most MaxOps user operations.
NextBar ==
    \/ User /\ \E q \in AppQueries : HandleInputChange(q)
    \/ User /\ HandleClear
    \/ User /\ \E i \in 1..Len(suggestions) : HandleSuggestionSelect(suggestions[i])
    \/ Still /\ TimerFire
    \/ Still /\ \E k \in 1..MaxFetches, r \in BarResponses : SuggestResponse(k, r)

SpecBar == Init /\ [][NextBar]_vars

\* The directory answers to the runs whose termination is checked: a failure,
\* an empty and a good answer.
LiveDirResponses ==
    {r \in DirResponses : r.kind = "reject" \/ r.data \in {<<>>, <<DirGood>>}}

\* The text search with every awaited call answered in the end.
NextLive ==
    \/ User /\ HandleGlobalSearch
    \/ User /\ \E q \in AppQueries : HandleInputChange(q)
    \/ Still /\ \E i \in RunIds, r \in AppSkResponses : AiResponse(i, r)
    \/ Still /\ \E i \in RunIds, r \in LiveDirResponses : GeoResponse(i, r)
    \/ Still /\ \E i \in RunIds, r \in LiveDirResponses : FallbackResponse(i, r)

\* Each awaited call of each run returns or fails in the end: the remote
\* services answer, and the event loop runs the continuation of a settled
\* promise.
Answered ==
    \A i \in RunIds :
        /\ WF_vars(Still /\ \E r \in AppSkResponses : AiResponse(i, r))
        /\ WF_vars(Still /\ \E r \in LiveDirResponses : GeoResponse(i, r))
        /\ WF_vars(Still /\ \E r \in LiveDirResponses : FallbackResponse(i, r))

SpecLive == Init /\ [][NextLive]_vars /\ Answered

\* The area search beside the handlers that change the Saved Set: the request,
\* its answer, adding, removing and reordering places, in any order.
NextArea ==
    \/ User /\ HandleSearchArea
    \/ User /\ \E d \in ModalForms, now \in 0..MaxClock :
                  HandleAddLocation(d, now) /\ UNCHANGED modal
    \/ User /\ \E id \in Ids(locations) \cup Ids(suggestedLocations) :
                  HandleRemoveLocation(id)
    \/ User /\ \E o \in Orders(SelectSeq(locations, LAMBDA l : ~l.visited)) : HandleReorder(o)
    \/ Still /\ \E a \in 1..MaxAreaRuns, r \in AreaResponses : AreaResponse(a, r)

SpecArea == Init /\ [][NextArea]_vars

\* The chat: typing, sending and the answers of the two generateContent calls,
\* the first with a text of 50 and of 51 characters too.
FiftyAnswer == ChatText("answer of 50 characters", 50)
FiftyOneAnswer == ChatText("answer of 51 characters", 51)
ChatBoundaryResponses ==
    ChatSearchResponses \cup {[kind |-> "text", text |-> t] : t \in {FiftyAnswer, FiftyOneAnswer}}
NextChat ==
    \/ User /\ \E t \in ChatInputs : SetInput(t)
    \/ User /\ HandleSend
    \/ Still /\ \E r \in ChatBoundaryResponses : ChatSearchResponse(1, r)
    \/ Still /\ \E r \in ChatExtractResponses : ChatExtractResponse(1, r)

SpecChat == Init /\ [][NextChat]_vars

\* The list of saved places: the filter buttons, marking a place visited or
\* to visit, dragging, adding and removing a place.
FilterTypes == {"Activity", "Other"}
FilterCategories == {"Hidden Gem"}
NextList ==
    \/ User /\ \E t \in FilterTypes : ToggleType(t)
    \/ User /\ \E c \in FilterCategories : ToggleCategory(c)
    \/ User /\ \E id \in Ids(locations) : HandleToggleVisited(id)
    \/ User /\ \E o \in Orders(DisplayToVisit(locations, listView)) : HandleReorder(o)
    \/ User /\ \E d \in ModalForms, now \in 0..MaxClock :
                  HandleAddLocation(d, now) /\ UNCHANGED modal
    \/ User /\ \E id \in Ids(locations) : HandleRemoveLocation(id)

SpecList == Init /\ [][NextList]_vars

(* ------------------------------- claims ------------------------------ *)
\* A finite number: neither undefined nor NaN.
IsFinite(v) == v.k = "num"
TierCount(calls, tier) == Cardinality({k \in 1..Len(calls) : calls[k] = tier})
Starts(i) == runs[i].pc = "idle" /\ runs'[i].pc # "idle"
Lands(i) == InFlight(runs[i]) /\ runs'[i].pc = "done"
ContainsQuery(l, q) == Includes(ToLowerCase(l.name), ToLowerCase(q))
FirstContaining(locs, q) ==
    CHOOSE k \in 1..Len(locs) :
        ContainsQuery(locs[k], q) /\ \A j \in 1..(k - 1) : ~ContainsQuery(locs[j], q)

\* C1: a handleGlobalSearch run whose query is contained, ignoring case, in the
\* name of some saved place selects the first such place in Saved Set order,
\* leaves the search-result slot empty and issues no remote call.
C1_LocalMatchFirst ==
    [][\A i \in RunIds :
          /\ (Starts(i) /\ \E k \in 1..Len(locations) : ContainsQuery(locations[k], searchQuery))
                => /\ selectedLocationId' = locations[FirstContaining(locations, searchQuery)].id
                   /\ searchResult' = <<>>
                   /\ runs'[i].pc = "done"
                   /\ runs'[i].calls = <<>>
          /\ (runs[i].outcome = "local" => runs'[i].calls = <<>>)]_vars

\* C1 witness: the query "ha" is submitted while both saved names contain it,
\* and the first of the two is selected.
C1_Witness ==
    \E i \in RunIds :
        /\ runs[i].outcome = "local" /\ runs[i].query = <<"h", "a">>
        /\ lastOp = "handleGlobalSearch"
        /\ Len(locations) = 2
        /\ \A k \in 1..2 : ContainsQuery(locations[k], <<"h", "a">>)
        /\ selectedLocationId = locations[1].id
        /\ searchResult = <<>>

\* C2: when the structured-knowledge call fails (rejected, empty text, text
\* that is not JSON, or the JSON null), the run raises nothing to the user
\* and goes on to a directory lookup on "<query> Singapore".
C2_SoftFailureProceeds ==
    [][\A i \in RunIds, r \in SkResponses :
          (AiThrows(r) /\ runs[i].tier = "ai" /\ AiResponse(i, r))
             => /\ InFlight(runs'[i])
                /\ runs'[i].alerts = runs[i].alerts
                /\ runs'[i].calls = Append(runs[i].calls, "geo")
                /\ runs'[i].sent = runs[i].query \o SingaporeSuffix]_vars

\* C3: a run in which no tier yields a coordinate (the structured-knowledge
\* call fails, or every directory query returns an empty array) ends with
\* exactly one "not found" notice and without having written a Candidate.
C3_TerminalNotFound ==
    \A i \in RunIds :
        (runs[i].pc = "done"
         /\ (runs[i].outcome = "notfound" \/ (runs[i].outcome = "failed" /\ runs[i].tier = "ai")))
           => runs[i].alerts = <<"not-found">>

\* C4: a structured-knowledge answer whose coordinates.lat and coordinates.lng
\* are both finite numbers is accepted directly: the Candidate carries exactly
\* those coordinates and the run issues no directory query.
C4_FiniteCoordinatesAccepted ==
    [][\A i \in RunIds, r \in SkResponses :
          (/\ r.kind = "object"
           /\ IsFinite(r.obj.coordinates.lat) /\ IsFinite(r.obj.coordinates.lng)
           /\ AiResponse(i, r))
             => /\ runs'[i].pc = "done"
                /\ runs'[i].calls = runs[i].calls
                /\ searchResult' # <<>>
                /\ searchResult'[1].coordinate = r.obj.coordinates]_vars

\* C5: the tiers of a run are called in the order structured-knowledge,
\* tier-1 directory, tier-2 directory, and a run calls no further tier once
\* one has yielded a finite coordinate.
C5_TierOrder ==
    [][\A i \in RunIds :
          /\ \A a, b \in 1..Len(runs'[i].calls) :
                (a < b) => (<<runs'[i].calls[a], runs'[i].calls[b]>>
                              \in {<<"ai", "geo">>, <<"ai", "fallback">>, <<"geo", "fallback">>})
          /\ \A r \in SkResponses :
                (/\ r.kind = "object"
                 /\ IsFinite(r.obj.coordinates.lat) /\ IsFinite(r.obj.coordinates.lng)
                 /\ AiResponse(i, r))
                   => runs'[i].calls = runs[i].calls
          /\ \A r \in DirResponses :
                (/\ r.kind = "array" /\ r.data # <<>>
                 /\ IsFinite(ParseFloat(r.data[1].lat)) /\ IsFinite(ParseFloat(r.data[1].lon))
                 /\ GeoResponse(i, r))
                   => runs'[i].calls = runs[i].calls]_vars

\* C6: a run issues at most one structured-knowledge call, at most one tier-1
\* directory query and at most one tier-2 directory query.
C6_EachTierOnce ==
    \A i \in RunIds : \A tier \in {"ai", "geo", "fallback"} :
        TierCount(runs[i].calls, tier) <= 1

\* C6 witness: a run that went through a structured-knowledge answer without
\* coordinates and two empty directory answers, having called each tier once.
C6_Witness ==
    \E i \in RunIds :
        /\ runs[i].outcome = "notfound"
        /\ Len(runs[i].calls) = 3
        /\ \A tier \in {"ai", "geo", "fallback"} : TierCount(runs[i].calls, tier) = 1

ValidCoordinate(c) ==
    /\ IsFinite(c.lat) /\ c.lat.n >= 0 - 90 /\ c.lat.n <= 90
    /\ IsFinite(c.lng) /\ c.lng.n >= 0 - 180 /\ c.lng.n <= 180

\* C7: every Location in the Saved Set, the Suggested Set or the search-result
\* slot has a finite lat in [-90, 90] and a finite lng in [-180, 180].
C7_ValidCoordinates ==
    \A l \in {locations[k] : k \in 1..Len(locations)}
             \cup {suggestedLocations[k] : k \in 1..Len(suggestedLocations)}
             \cup {searchResult[k] : k \in 1..Len(searchResult)} :
        ValidCoordinate(l.coordinate)


\* What a run has done so far, without the note that it overlapped another.
Progress(r) == [r EXCEPT !.overlapped = FALSE]

\* C8 as first stated: when a run lands last among overlapping runs, the
\* search-result slot holds that run's outcome, so the slot holds no other
\* run's Candidate once the run that lands last has found nothing.
C8_LastLandedOutcome ==
    [][\A i \in RunIds :
          (/\ Lands(i) /\ runs'[i].overlapped
           /\ \A j \in RunIds \ {i} : ~InFlight(runs[j]))
             => (runs'[i].outcome = "found" \/ searchResult' = <<>>)]_vars

\* C8: overlapping runs do not disturb each other, and a run that lands with
\* a coordinate overwrites the search-result slot with its own Candidate
\* whatever the order of issue, while a run that lands with NotFound or a
\* failure leaves the slot as it was.
C8_LastFoundOverwrites ==
    [][\A i \in RunIds :
          /\ (Lands(i) /\ runs'[i].outcome = "found")
                => /\ runs[i].tier = "ai" =>
                         \A r \in SkResponses :
                             AiResponse(i, r)
                                => searchResult' =
                                      <<AiCandidate(r.obj, runs[i].query,
                                                    r.obj.coordinates.lat, r.obj.coordinates.lng)>>
                   /\ runs[i].tier = "geo" =>
                         \A r \in DirResponses :
                             GeoResponse(i, r)
                                => searchResult' =
                                      <<AiCandidate(runs[i].result[1], runs[i].query,
                                                    ParseFloat(r.data[1].lat),
                                                    ParseFloat(r.data[1].lon))>>
                   /\ runs[i].tier = "fallback" =>
                         \A r \in DirResponses :
                             FallbackResponse(i, r)
                                => searchResult' = <<FallbackCandidate(r.data[1], runs[i].query)>>
          /\ (Lands(i) /\ runs'[i].outcome # "found") => searchResult' = searchResult
          /\ (InFlight(runs[i]) /\ Progress(runs'[i]) # Progress(runs[i]))
                => \A j \in RunIds \ {i} : Progress(runs'[j]) = Progress(runs[j])]_vars

\* C8 witness: two overlapping runs have both found a place, the second
\* through the structured-knowledge answer alone, and the slot holds a
\* Candidate of the directory tiers: that of the run issued first, which
\* landed last.
C8_Witness ==
    /\ \A i \in 1..2 : runs[i].outcome = "found" /\ runs[i].overlapped
    /\ Len(runs[1].calls) = 3
    /\ Len(runs[2].calls) = 1
    /\ searchResult # <<>>
    /\ searchResult[1].description.pre = "Found: "

\* C10: a submit whose query is empty after trimming changes neither
\* isSearching, the search-result slot, the selection nor the Saved Set, and
\* starts no run, hence no remote call.
C10_BlankQueryNoOp ==
    [][(Trim(searchQuery) = <<>> /\ HandleGlobalSearch)
          => UNCHANGED <<isSearching, searchResult, selectedLocationId, locations, runs>>]_vars

\* C10 witness: the white-space query " " has been submitted and nothing runs.
C10_Witness ==
    /\ lastOp = "handleGlobalSearch"
    /\ searchQuery = <<" ">>
    /\ \A i \in RunIds : runs[i].pc = "idle"
    /\ ~isSearching


\* C9: the Saved Set changes only through add, remove, reorder and
\* toggle-visited: a step that changes it is no step of handleGlobalSearch
\* (whatever its outcome), handleSuggestionSelect, handleSearchArea or the
\* autocomplete, nor of any other handler that is not one of the four.
C9_SavedSetFrame ==
    [][(locations' # locations)
          => ~(\/ HandleGlobalSearch
               \/ \E i \in RunIds, r \in SkResponses : AiResponse(i, r)
               \/ \E i \in RunIds, r \in DirResponses : GeoResponse(i, r)
               \/ \E i \in RunIds, r \in DirResponses : FallbackResponse(i, r)
               \/ \E i \in 1..Len(suggestions) : HandleSuggestionSelect(suggestions[i])
               \/ HandleSearchArea
               \/ \E a \in 1..Len(areaRuns), r \in AreaResponses : AreaResponse(a, r)
               \/ TimerFire
               \/ \E k \in 1..Len(fetches), r \in DirResponses : SuggestResponse(k, r)
               \/ \E q \in Queries : HandleInputChange(q)
               \/ HandleClear
               \/ CloseCard
               \/ \E id \in Ids(locations) \cup Ids(suggestedLocations) \cup Ids(searchResult) :
                     HandleLocationSelect(id))]_vars

\* C9 witness: the same query has been searched twice, both runs found a
\* place, an area search has filled the Suggested Set, and the Saved Set is
\* the one the session started with.
C9_Witness ==
    /\ \A i \in 1..2 : runs[i].outcome = "found"
    /\ runs[1].query = runs[2].query
    /\ suggestedLocations # <<>>
    /\ locations \in SavedSets


\* The query as the matching should see it: trimmed and lower-cased.
Normalized(q) == ToLowerCase(Trim(q))

\* C11: the local-match outcome of a handleGlobalSearch run is that of the
\* normalized query: a query and its trimmed, lower-cased form select the same
\* saved place, or both match none.
C11_NormalizedLocalMatch ==
    [][\A i \in RunIds :
          Starts(i)
            => LET m == LocalMatch(locations, Normalized(searchQuery))
               IN IF m # 0
                  THEN runs'[i].outcome = "local" /\ selectedLocationId' = locations[m].id
                  ELSE runs'[i].outcome # "local"]_vars


\* The postal-code token of a string: its first six consecutive digits.
HasPostalToken(s) == \E i \in 1..(Len(s) - 5) : \A j \in i..(i + 5) : IsDigit(s[j])
PostalToken(s) ==
    LET i == CHOOSE a \in 1..(Len(s) - 5) :
                 /\ \A j \in a..(a + 5) : IsDigit(s[j])
                 /\ \A b \in 1..(a - 1) : \E j \in b..(b + 5) : ~IsDigit(s[j])
    IN [j \in 1..6 |-> s[i + j - 1]]

\* The structured-knowledge answer that run i keeps once it has issued its
\* tier-1 directory query in this step, and the performGeocode call issued in
\* this step.
IssuesGeocode(i) == runs[i].tier = "ai" /\ runs'[i].tier = "geo" /\ InFlight(runs'[i])
CallsPerformGeocode == Len(modal'.geocodes) > Len(modal.geocodes)
IssuedGeocode == modal'.geocodes[Len(modal'.geocodes)]

\* C12: when the address (the seed) holds a postal-code token, the directory
\* query issued is exactly "<code> Singapore" with <code> that token, in the
\* tier-1 lookup of handleGlobalSearch and in performGeocode alike.
C12_PostalQuery ==
    [][/\ \A i \in RunIds :
             (/\ IssuesGeocode(i)
              /\ runs'[i].result[1].address.k = "str"
              /\ HasPostalToken(runs'[i].result[1].address.s))
                => runs'[i].sent = PostalToken(runs'[i].result[1].address.s) \o SingaporeSuffix
       /\ (/\ CallsPerformGeocode
           /\ IssuedGeocode.queryAddress.k = "str"
           /\ HasPostalToken(IssuedGeocode.queryAddress.s))
             => IssuedGeocode.q = PostalToken(IssuedGeocode.queryAddress.s) \o SingaporeSuffix]_vars

\* C12 witness: a run of the text search and a performGeocode call are both
\* awaiting the directory's answer to "123456 Singapore", each having drawn
\* the code from the address "9 Rd 123456".
C12_Witness ==
    /\ \E i \in RunIds :
          /\ InFlight(runs[i]) /\ runs[i].tier = "geo"
          /\ runs[i].result[1].address = Str(PostalAddress)
          /\ runs[i].sent = <<"1", "2", "3", "4", "5", "6">> \o SingaporeSuffix
    /\ \E k \in 1..Len(modal.geocodes) :
          /\ modal.geocodes[k].queryAddress = Str(PostalAddress)
          /\ modal.geocodes[k].q = <<"1", "2", "3", "4", "5", "6">> \o SingaporeSuffix


NoPostalToken(seed) == seed.k # "str" \/ ~HasPostalToken(seed.s)

\* The directory queries C13 allows for a seed without postal-code token:
\* "<seed> Singapore" for a seed of more than five characters, "<name>
\* Singapore" for an absent or empty seed, either of the two for a shorter one.
SeedOrNameQueries(seed, name) ==
    IF ~Truthy(seed) THEN {name \o SingaporeSuffix}
    ELSE IF Len(seed.s) > 5 THEN {seed.s \o SingaporeSuffix}
    ELSE {seed.s \o SingaporeSuffix, name \o SingaporeSuffix}

\* C13: when the seed holds no postal-code token, the directory query is
\* "<seed> Singapore" for a seed of non-trivial length and "<name> Singapore"
\* otherwise, the suffix appended exactly once, in the tier-1 lookup of
\* handleGlobalSearch and in the performGeocode calls of handleAiAutoFill and
\* of the prefilled modal.
C13_SeedOrNameQuery ==
    [][/\ \A i \in RunIds :
             (IssuesGeocode(i) /\ NoPostalToken(runs'[i].result[1].address))
                => runs'[i].sent \in SeedOrNameQueries(runs'[i].result[1].address,
                                                       JsString(runs'[i].result[1].name))
       /\ CallsPerformGeocode
             => /\ \A r \in FillResponses :
                      (modal.fills # <<>> /\ NoPostalToken(r.obj.address) /\ FillResponse(1, r))
                         => IssuedGeocode.q
                               \in SeedOrNameQueries(r.obj.address, modal.fills[1].name)
                /\ \A place \in ChatPlaces :
                      (NoPostalToken(place.address) /\ HandleAddFromChat(place))
                         => IssuedGeocode.q \in SeedOrNameQueries(place.address, place.name.s)]_vars


EmptyArray == [kind |-> "array", data |-> <<>>]

\* C14: an empty array from the tier-1 lookup raises no notice and makes the
\* run issue its one tier-2 query, on the query as typed followed by
\* " Singapore"; a non-empty tier-2 answer then ends the run Found, its
\* Candidate in the search-result slot.
C14_EmptyTier1Escalates ==
    [][\A i \in RunIds :
          /\ (runs[i].tier = "geo" /\ GeoResponse(i, EmptyArray))
                => /\ InFlight(runs'[i]) /\ runs'[i].tier = "fallback"
                   /\ runs'[i].sent = runs[i].query \o SingaporeSuffix
                   /\ TierCount(runs'[i].calls, "fallback") = 1
                   /\ runs'[i].alerts = runs[i].alerts
          /\ runs[i].tier = "fallback"
                => \A r \in DirResponses :
                      (r.kind = "array" /\ r.data # <<>> /\ FallbackResponse(i, r))
                         => /\ runs'[i].outcome = "found"
                            /\ runs'[i].alerts = runs[i].alerts
                            /\ searchResult' = <<FallbackCandidate(r.data[1], runs[i].query)>>]_vars

\* C14 witness: the run for "zed" got no coordinate from the first two tiers,
\* asked the directory for "zed Singapore" and ended Found on its answer,
\* without any notice.
C14_Witness ==
    \E i \in RunIds :
        /\ runs[i].outcome = "found"
        /\ runs[i].query = <<"z", "e", "d">>
        /\ runs[i].calls = <<"ai", "geo", "fallback">>
        /\ runs[i].alerts = <<>>
        /\ searchResult # <<>> /\ searchResult[1].description.pre = "Found: "


\* C15: an area search that applies a response keeps in the Suggested Set
\* exactly the returned elements whose name is not string-equal, case
\* included, to the name of a saved place, the Saved Set being the one the
\* invocation reads: with "Ha" saved, an element named "Ha" is excluded and
\* one named "ha" is kept.
C15_ExactNameDedup ==
    [][\A a \in 1..Len(areaRuns) :
          areaRuns[a].pc = "await"
            => \A r \in AreaResponses :
                  (r.kind = "elements" /\ AreaResponse(a, r))
                     => \A k \in 1..Len(r.elements) :
                           (<<"sugg", r.elements[k].id>> \in Ids(suggestedLocations'))
                              <=> ~(\E j \in 1..Len(areaRuns[a].locations) :
                                      areaRuns[a].locations[j].name = r.elements[k].tags.name)]_vars

\* C15 witness: with "Ha" saved, the response with the elements "Ha" and "ha"
\* has been applied and the Suggested Set holds "ha" alone.
C15_Witness ==
    /\ Ha \in Names(locations)
    /\ areaRuns = <<>> /\ ~isSearchingArea
    /\ Len(suggestedLocations) = 1
    /\ suggestedLocations[1].name = <<"h", "a">>
    /\ suggestedLocations[1].id = <<"sugg", 8>>


\* C16: an area search that applies a response replaces the Suggested Set
\* wholesale: the new set is exactly the deduplicated, normalized elements of
\* that response, in their order, and a suggestion of the previous set stays
\* only if the response holds its element too.
C16_WholesaleReplace ==
    [][\A a \in 1..Len(areaRuns) :
          areaRuns[a].pc = "await"
            => \A r \in AreaResponses :
                  (r.kind = "elements" /\ AreaResponse(a, r))
                     => LET kept == SelectSeq(r.elements,
                                       LAMBDA el : \A j \in 1..Len(areaRuns[a].locations) :
                                                      areaRuns[a].locations[j].name # el.tags.name)
                        IN /\ Len(suggestedLocations') = Len(kept)
                           /\ \A k \in 1..Len(kept) :
                                 /\ suggestedLocations'[k].id = <<"sugg", kept[k].id>>
                                 /\ suggestedLocations'[k].name = kept[k].tags.name
                                 /\ suggestedLocations'[k].coordinate =
                                       [lat |-> kept[k].lat, lng |-> kept[k].lon]
                           /\ \A k \in 1..Len(suggestedLocations) :
                                 (suggestedLocations[k].id \in Ids(suggestedLocations'))
                                    => \E n \in 1..Len(r.elements) :
                                          suggestedLocations[k].id = <<"sugg", r.elements[n].id>>]_vars

\* C16 witness: the suggestion "ha" of a first area search was selected, and
\* a second area search has left "Zed" alone in the Suggested Set.
C16_Witness ==
    /\ selectedLocationId = <<"sugg", 8>>
    /\ areaRuns = <<>> /\ ~isSearchingArea
    /\ Len(suggestedLocations) = 1
    /\ suggestedLocations[1].id = <<"sugg", 9>>


\* C17: when the area service answers with a status that is not 2xx, or with
\* an empty list of elements, the Suggested Set is empty and isSearchingArea
\* false once the invocation has completed.
C17_FailureEmptiesSuggestions ==
    [][\A a \in 1..Len(areaRuns) :
          areaRuns[a].pc = "await"
            => \A r \in AreaResponses :
                  (/\ r.kind = "http-error" \/ (r.kind = "elements" /\ r.elements = <<>>)
                   /\ AreaResponse(a, r))
                     => suggestedLocations' = <<>> /\ ~isSearchingArea']_vars


\* C18: the search-result slot is empty after the selection card is closed
\* and after the result is saved, and stays empty until a run of the text
\* search lands with a Candidate.
C18_SlotClearedOnCloseAndSave ==
    [][/\ CloseCard => searchResult' = <<>>
       /\ (\E now \in 0..MaxClock : HandleAddSearchResult(now)) => searchResult' = <<>>
       /\ (searchResult = <<>> /\ searchResult' # <<>>)
             => \E i \in RunIds : Lands(i) /\ runs'[i].outcome = "found"]_vars


QuotaFailure == [kind |-> "quota", obj |-> ObjEmpty]
ChatQuotaFailure == [kind |-> "quota", text |-> NoRecommendations]

\* C19: a quota-exceeded failure of the structured-knowledge service shows
\* the user a signal that differs from the one of a generic failure, and the
\* call is not issued again, in handleGlobalSearch, in handleAiAutoFill and in
\* handleSend.
C19_QuotaSignalDistinct ==
    [][/\ \A i \in RunIds :
             (runs[i].tier = "ai" /\ AiResponse(i, QuotaFailure))
                => /\ Len(runs'[i].alerts) = Len(runs[i].alerts) + 1
                   /\ runs'[i].alerts[Len(runs'[i].alerts)] # "search-failed"
                   /\ runs'[i].pc = "done" /\ TierCount(runs'[i].calls, "ai") = 1
       /\ (modal.fills # <<>> /\ FillResponse(1, QuotaFailure))
             => /\ modal'.description.pre # ""
                /\ modal'.description # NoDetailsNote
                /\ modal'.fills = <<>>
       /\ (chat.sends # <<>> /\ ChatSearchResponse(1, ChatQuotaFailure))
             => /\ chat'.messages[Len(chat'.messages)].text \notin {ChatErrorNote, ChatRephraseNote}
                /\ Len(chat'.messages) = Len(chat.messages) + 1
                /\ chat'.sends = <<>>]_vars


\* C20: the places of the Saved Set have pairwise distinct ids, whatever the
\* adds (from the modal or of the search result), removals, reorders and
\* visited toggles that led to it.
C20_DistinctIds ==
    \A j, k \in 1..Len(locations) : (j # k) => locations[j].id # locations[k].id


\* The name the stated order gives: amenity, building, tourism, shop, road.
OrderedName(data) ==
    IF Truthy(data.address.amenity) THEN data.address.amenity.s
    ELSE IF Truthy(data.address.building) THEN data.address.building.s
    ELSE IF Truthy(data.address.tourism) THEN data.address.tourism.s
    ELSE IF Truthy(data.address.shop) THEN data.address.shop.s
    ELSE IF Truthy(data.address.road) THEN data.address.road.s
    ELSE UnknownLocation

\* C21: performReverseGeocode names the place by the first present of
\* amenity, building, tourism, shop and road, "Unknown Location" when none is
\* present, and no other field of the answer comes before these.
C21_ReverseNameOrder ==
    [][\A k \in 1..Len(modal.reverses) :
          \A r \in ReverseResponses :
             (r.kind = "object" /\ ReverseResponse(k, r))
                => modal'.name = OrderedName(r.data)]_vars


\* The place type the stated mapping gives for an amenity.
AmenityType(amenity) ==
    IF amenity = Str(RestaurantWord) THEN "Restaurant"
    ELSE IF amenity = Str(CafeWord) THEN "Cafe"
    ELSE IF amenity \in {Str(BarWord), Str(PubWord)} THEN "Bar"
    ELSE "Other"

\* C22: after performReverseGeocode applies an answer, placeType is the one
\* the amenity alone determines: Restaurant, Cafe, Bar for bar or pub, and
\* Other for any other or absent amenity.
C22_TypeFromAmenity ==
    [][\A k \in 1..Len(modal.reverses) :
          \A r \in ReverseResponses :
             (r.kind = "object" /\ ReverseResponse(k, r))
                => modal'.placeType = AmenityType(r.data.address.amenity)]_vars


\* C23: the autocomplete is debounced and length-gated. A keystroke issues
\* no fetch and leaves one pending timer, for the value just typed, whatever
\* was pending before; only a keystroke sets the timer; a fetch is issued
\* only when the timer fires, once, for the value the timer holds, which has
\* at least 3 characters; when that value has fewer than 3 characters no
\* fetch is issued and the suggestion list is emptied.
C23_DebouncedLengthGated ==
    [][/\ \A q \in AppQueries :
             HandleInputChange(q) => (debounceTimer' = <<q>> /\ fetches' = fetches)
       /\ (debounceTimer' # <<>> /\ debounceTimer' # debounceTimer)
             => \E q \in AppQueries : HandleInputChange(q)
       /\ Len(fetches') > Len(fetches)
             => /\ debounceTimer # <<>>
                /\ debounceTimer' = <<>>
                /\ Len(debounceTimer[1]) >= 3
                /\ Len(fetches') = Len(fetches) + 1
                /\ fetches'[Len(fetches')].query = debounceTimer[1]
       /\ (debounceTimer # <<>> /\ Len(debounceTimer[1]) < 3 /\ TimerFire)
             => (Len(fetches') = Len(fetches) /\ suggestions' = <<>>)]_vars

\* Two keystrokes and one fetch in flight, for the value typed last.
C23_Witness ==
    /\ ops = 2
    /\ debounceTimer = <<>>
    /\ Len(fetches) = 1
    /\ fetches[1].query = searchQuery
    /\ ~fetches[1].superseded
    /\ suggestions = <<>>


\* The name by the stated preference, ending in the given last resort.
PreferredName(suggestion, label) ==
    IF Truthy(suggestion.address.amenity) THEN suggestion.address.amenity.s
    ELSE IF Truthy(suggestion.address.building) THEN suggestion.address.building.s
    ELSE IF Truthy(suggestion.address.shop) THEN suggestion.address.shop.s
    ELSE IF Truthy(suggestion.address.tourism) THEN suggestion.address.tourism.s
    ELSE label

\* Selecting the suggestion sg makes a Candidate of the given name, built from
\* the suggestion's own fields, the search result and the selection, and
\* issues no remote call.
SelectionSynthesizes(sg, name) ==
    /\ Len(searchResult') = 1
    /\ searchResult'[1].id = TempId
    /\ searchResult'[1].name = name
    /\ searchResult'[1].coordinate = [lat |-> ParseFloat(sg.lat), lng |-> ParseFloat(sg.lon)]
    /\ searchResult'[1].address = Str(sg.display_name)
    /\ selectedLocationId' = searchResult'[1].id
    /\ UNCHANGED <<runs, areaRuns, fetches, isSearching, isSearchingArea, loading>>
    /\ modal'.geocodes = modal.geocodes /\ modal'.reverses = modal.reverses
    /\ modal'.fills = modal.fills /\ chat'.sends = chat.sends

\* C24 as stated: selecting a suggestion synthesizes the Candidate from the
\* suggestion's own fields with no remote call, names it by amenity, building,
\* shop, tourism and then the raw label, and makes it the search result and
\* the selection.
C24_RawLabelLast ==
    [][\A i \in 1..Len(suggestions) :
          HandleSuggestionSelect(suggestions[i])
             => SelectionSynthesizes(suggestions[i],
                                     PreferredName(suggestions[i],
                                                   suggestions[i].display_name))]_vars

\* C24, amended: the last resort of the name is the part of the label before
\* its first comma.
C24_FirstSegmentLast ==
    [][\A i \in 1..Len(suggestions) :
          HandleSuggestionSelect(suggestions[i])
             => SelectionSynthesizes(suggestions[i],
                                     PreferredName(suggestions[i],
                                                   FirstSegment(suggestions[i].display_name)))]_vars

\* A suggestion with a shop and a tourism name has been selected, with no
\* call in flight.
C24_Witness ==
    /\ suggestions = <<SugShop, SugTourism>>
    /\ searchResult # <<>>
    /\ searchResult[1].id = TempId /\ selectedLocationId = TempId
    /\ searchResult[1].name = Ha
    /\ searchResult[1].coordinate = [lat |-> Num(2), lng |-> Num(104)]
    /\ searchQuery = Ha
    /\ fetches = <<>>


\* C25: the Candidate of tier 2 takes its coordinate, name and description
\* from the directory result and the raw query alone, its category is Hidden
\* Gem and its placeType Other; it carries no address and nothing of the
\* structured-knowledge answer, whose Candidates are described "Found at".
C25_NoCrossTierMerging ==
    [][\A i \in RunIds :
          (InFlight(runs[i]) /\ runs[i].tier = "fallback")
             => \A r \in DirResponses :
                   (r.kind = "array" /\ Len(r.data) > 0 /\ FallbackResponse(i, r))
                      => /\ Len(searchResult') = 1
                         /\ searchResult'[1].coordinate =
                               [lat |-> ParseFloat(r.data[1].lat),
                                lng |-> ParseFloat(r.data[1].lon)]
                         /\ searchResult'[1].name =
                               (IF Truthy(r.data[1].name) THEN r.data[1].name.s
                                ELSE runs[i].query)
                         /\ searchResult'[1].description =
                               [pre |-> "Found: ", s |-> r.data[1].display_name]
                         /\ searchResult'[1].category = "Hidden Gem"
                         /\ searchResult'[1].placeType = "Other"
                         /\ searchResult'[1].address = Undef]_vars

\* A run whose structured-knowledge answer had no coordinates and whose tier-1
\* lookup was empty has landed on a tier-2 result without a name, and is
\* named by the raw query.
C25_Witness ==
    \E i \in RunIds :
        /\ runs[i].outcome = "found"
        /\ runs[i].calls = <<"ai", "geo", "fallback">>
        /\ searchResult # <<>>
        /\ searchResult[1].name = runs[i].query
        /\ searchResult[1].coordinate = [lat |-> Num(2), lng |-> Num(104)]
        /\ searchResult[1].description = [pre |-> "Found: ", s |-> Display1]
        /\ searchResult[1].category = "Hidden Gem"
        /\ searchResult[1].placeType = "Other"


\* The coordinate of the first element of a directory answer.
FirstCoordinate(data) == [lat |-> ParseFloat(data[1].lat), lng |-> ParseFloat(data[1].lon)]

\* C26: whenever a directory lookup made for a coordinate (tier 1 and tier 2
\* of handleGlobalSearch, performGeocode of the modal) is answered with a
\* non-empty array, the coordinate taken is that of the array's first element.
C26_FirstElementTaken ==
    [][/\ \A i \in RunIds :
             (InFlight(runs[i]) /\ runs[i].tier \in {"geo", "fallback"})
                => \A r \in ModalsDirResponses :
                      (/\ Len(r.data) > 0
                       /\ GeoResponse(i, r) \/ FallbackResponse(i, r)
                       /\ runs'[i].outcome = "found")
                         => searchResult'[1].coordinate = FirstCoordinate(r.data)
       /\ \A k \in 1..Len(modal.geocodes) :
             \A r \in ModalDirResponses :
                (r.kind = "array" /\ Len(r.data) > 0 /\ GeocodeResponse(k, r))
                   => modal'.coordinate = FirstCoordinate(r.data)]_vars


\* C27: every run of handleGlobalSearch that has set isSearching true and
\* awaits a call ends, whichever way it leaves, and has then set isSearching
\* false, provided each awaited call returns or fails in the end.
C27_RunsEndNotSearching ==
    \A i \in RunIds : InFlight(runs[i]) ~> (runs[i].pc = "done" /\ ~isSearching)

\* A run has left through the not-found alert after all three calls, and one
\* through the catch.
C27_Witness ==
    /\ ~isSearching
    /\ \E i \in RunIds : runs[i].outcome = "notfound" /\ runs[i].calls = <<"ai", "geo", "fallback">>
    /\ \E i \in RunIds : runs[i].outcome = "failed" /\ runs[i].calls = <<"ai", "geo">>


\* C28: isSearching is true whenever at least one run of handleGlobalSearch
\* awaits a call, overlapping runs included, and false only when none does.
C28_SearchingWhileInFlight ==
    isSearching <=> \E i \in RunIds : InFlight(runs[i])


\* C29: whenever no area search is in flight, no element of the Suggested Set
\* has the name of a place of the Saved Set, after any interleaving of
\* handleSearchArea's request and answer with handleAddLocation,
\* handleRemoveLocation and handleReorder.
C29_SuggestedDisjointFromSaved ==
    areaRuns = <<>> => Names(suggestedLocations) \cap Names(locations) = {}


\* C30: the suggestion list answers the most recently made call of
\* fetchSuggestions: the answer to a call after which a later call was made
\* never replaces the list, whatever order the answers arrive in.
C30_StaleAnswerDiscarded ==
    [][\A k \in 1..Len(fetches) :
          fetches[k].superseded
             => \A r \in BarResponses :
                   SuggestResponse(k, r) => suggestions' = suggestions]_vars


\* C31: after handleClear the suggestion list is empty and hidden, and stays
\* so until the user types again: the search text is empty exactly from a
\* clear (or the start) to the next keystroke, and while it is, neither a
\* timer pending at the clear nor a fetch in flight at the clear fills or
\* shows the list.
C31_ClearedStaysEmpty ==
    searchQuery = <<>> => (suggestions = <<>> /\ ~showSuggestions)


\* C32: in the AddLocationModal isGeocoding is true whenever a forward or a
\* reverse geocode the modal started is still in flight, also when
\* handleAiAutoFill overlaps a geocode started by the prefill, so that no
\* place is submitted while a coordinate lookup is pending.
C32_GeocodingWhileInFlight ==
    (modal.geocodes # <<>> \/ modal.reverses # <<>>) => modal.isGeocoding


\* The fields of the form that a lookup or the auto-fill can resolve.
Form(m) == <<m.coordinate, m.name, m.description, m.placeType>>

\* C33: the answer to a geocode, a reverse geocode or an auto-fill that
\* belongs to an earlier opening of the modal never changes the coordinate,
\* name, description or type of a later opening.
C33_EarlierOpeningsAnswersDropped ==
    [][modal.isOpen
          => /\ \A k \in 1..Len(modal.geocodes) :
                   modal.geocodes[k].stale
                      => \A r \in ModalDirResponses :
                            GeocodeResponse(k, r) => Form(modal') = Form(modal)
             /\ \A k \in 1..Len(modal.reverses) :
                   modal.reverses[k].stale
                      => \A r \in ReverseResponses :
                            ReverseResponse(k, r) => Form(modal') = Form(modal)
             /\ \A k \in 1..Len(modal.fills) :
                   modal.fills[k].stale
                      => \A r \in FillResponses :
                            FillResponse(k, r) => Form(modal') = Form(modal)]_vars


\* The lookups of the modal in flight.
Lookups(m) == <<m.geocodes, m.reverses>>

\* C34: an opening of the modal starts lookups by the shape of the prefill
\* alone: exactly one forward geocode for a name without a coordinate,
\* exactly one reverse geocode for a coordinate without a name, none without
\* a prefill, when the form is reset to an empty name and description, Hidden
\* Gem, Other and the current map centre; and while the modal stays open the
\* form is not initialised again.
C34_LookupsByPrefillShape ==
    [][/\ \A place \in ChatPlaces :
             HandleAddFromChat(place)
                => /\ Len(modal'.geocodes) = Len(modal.geocodes) + 1
                   /\ modal'.reverses = modal.reverses
       /\ HandleMapClick(ClickPoint)
             => /\ Len(modal'.reverses) = Len(modal.reverses) + 1
                /\ modal'.geocodes = modal.geocodes
       /\ HandleOpenAddModal
             => /\ Lookups(modal') = Lookups(modal)
                /\ modal'.name = <<>> /\ modal'.description = Text(<<>>)
                /\ modal'.category = "Hidden Gem" /\ modal'.placeType = "Other"
                /\ modal'.coordinate = modal.center
       /\ modal.isOpen
             => \A c \in MapCenters :
                   HandleCenterChange(c)
                      => /\ Lookups(modal') = Lookups(modal)
                         /\ Form(modal') = Form(modal)
                         /\ modal'.category = modal.category]_vars


\* C35: while a type filter or a category filter is active in the list,
\* handleReorder does nothing: whatever order is dragged, the Saved Set and
\* its order stay as they were (onReorder is not called).
C35_NoReorderWhileFiltering ==
    [][IsFiltered(listView) =>
          \A o \in Orders(DisplayToVisit(locations, listView)) :
              HandleReorder(o) => locations' = locations]_vars

\* A filter is active, two places are displayed to visit, and handleReorder
\* has just run.
C35_Witness ==
    /\ lastOp = "handleReorder"
    /\ IsFiltered(listView)
    /\ Len(DisplayToVisit(locations, listView)) = 2

\* The places of s that are to visit, and those that are visited, in order.
ToVisit(s) == SelectSeq(s, LAMBDA l : ~l.visited)
Visited(s) == SelectSeq(s, LAMBDA l : l.visited)

\* t holds the ids of s, each as often, in some order.
PermutationById(s, t) ==
    /\ Len(s) = Len(t)
    /\ \E f \in [1..Len(s) -> 1..Len(s)] :
          /\ \A a, b \in 1..Len(s) : f[a] = f[b] => a = b
          /\ \A a \in 1..Len(s) : t[a].id = s[f[a]].id

\* C36: with no filter active, a drag-reorder leaves a permutation of the
\* Saved Set by id, in which the to-visit places are in the dragged order and
\* the visited places keep their relative order.
C36_ReorderPermutes ==
    [][~IsFiltered(listView) =>
          \A o \in Orders(DisplayToVisit(locations, listView)) :
              HandleReorder(o) =>
                  /\ PermutationById(locations, locations')
                  /\ ToVisit(locations') = o
                  /\ Visited(locations') = Visited(locations)]_vars

\* No filter is active and handleReorder has just run on three places, two of
\* them to visit, leaving the place saved second at the start in front of
\* the place saved first.
C36_Witness ==
    /\ lastOp = "handleReorder"
    /\ ~IsFiltered(listView)
    /\ Len(locations) = 3
    /\ Len(ToVisit(locations)) = 2
    /\ \E i, j \in 1..Len(locations) :
          i < j /\ locations[i].id = <<"saved", 2>> /\ locations[j].id = <<"saved", 1>>


\* The places of s without those of the id.
Lacking(s, id) == SelectSeq(s, LAMBDA l : l.id # id)

\* C37: handleRemoveLocation(id) takes the id out of the first collection that
\* holds it, in the order Saved Set, Suggested Set, temporary search result,
\* and leaves the other two as they were; the selection becomes null exactly
\* when it was the id (or was null already), and otherwise stays; with the id
\* in no collection nothing changes.
C37_RemoveFromOneCollection ==
    [][\A id \in Ids(locations) \cup Ids(suggestedLocations) \cup Ids(searchResult)
                   \cup {GoneId} :
          HandleRemoveLocation(id) =>
              /\ locations' = IF id \in Ids(locations) THEN Lacking(locations, id)
                              ELSE locations
              /\ suggestedLocations' =
                     IF id \notin Ids(locations) /\ id \in Ids(suggestedLocations)
                     THEN Lacking(suggestedLocations, id)
                     ELSE suggestedLocations
              /\ searchResult' =
                     IF id \notin Ids(locations) \cup Ids(suggestedLocations)
                        /\ id \in Ids(searchResult)
                     THEN <<>>
                     ELSE searchResult
              /\ (selectedLocationId' = NoId) <=> (selectedLocationId \in {id, NoId})
              /\ selectedLocationId' \in {selectedLocationId, NoId}
              /\ (id \notin Ids(locations) \cup Ids(suggestedLocations) \cup Ids(searchResult))
                    => UNCHANGED <<appVars, runs, areaRuns, clock, barVars>>]_vars

\* handleRemoveLocation has run: the Saved Set has lost one of its two places,
\* which only a removal does, a suggestion is still there, and nothing is
\* selected.
C37_Witness ==
    /\ Len(locations) = 1
    /\ suggestedLocations # <<>>
    /\ selectedLocationId = NoId


\* C38: the selection, when it is not null, is the id of a place of the Saved
\* Set, of the Suggested Set or of the temporary search result.
C38_SelectionIsPresent ==
    selectedLocationId # NoId =>
        selectedLocationId \in Ids(locations) \cup Ids(suggestedLocations) \cup Ids(searchResult)


\* The user messages and the model messages alternate from the first, a user
\* message, on; the last has no answer yet exactly while a send is in flight.
ChatInTurns(c) ==
    /\ \A i \in 1..Len(c.messages) :
          c.messages[i].role = (IF i % 2 = 1 THEN "user" ELSE "model")
    /\ Len(c.sends) <= 1
    /\ c.isLoading <=> (c.sends # <<>>)
    /\ (Len(c.messages) % 2 = 1) <=> (c.sends # <<>>)

\* C39: handleSend is single-flight. A send while another is in flight, or
\* with a blank input, changes nothing; an accepted send appends one user
\* message and its answer or error text appends one model message, so the
\* messages alternate with at most one send in flight; the list only grows at
\* its end; and isLoading is false once the send is over.
C39_SingleFlightSend ==
    [][/\ (HandleSend /\ (Trim(chat.input) = <<>> \/ chat.isLoading)) => chat' = chat
       /\ ChatInTurns(chat')
       /\ Len(chat'.messages) \in {Len(chat.messages), Len(chat.messages) + 1}
       /\ SubSeq(chat'.messages, 1, Len(chat.messages)) = chat.messages
       /\ (chat.sends # <<>> /\ chat'.sends = <<>>)
             => /\ ~chat'.isLoading
                /\ Len(chat'.messages) = Len(chat.messages) + 1]_vars

\* Two sends have been accepted and answered, the first with an error text.
C39_Witness ==
    /\ Len(chat.messages) = 4
    /\ chat.messages[2].text = ChatErrorNote
    /\ ~chat.isLoading
    /\ chat.sends = <<>>


\* C40: a failure of the extraction call does not fail the chat turn: the
\* answer's text is appended as the model's message, with no places and no
\* error text, and the send is over; and the extraction call is made exactly
\* for a text of more than 50 characters.
C40_ExtractionFailureTolerated ==
    [][/\ \A r \in {x \in ChatExtractResponses : x.kind \in {"reject", "quota"}} :
             (chat.sends # <<>> /\ ChatExtractResponse(1, r))
                => /\ chat'.messages =
                          Append(chat.messages,
                                 ChatMessage("model", chat.sends[1].text, <<>>))
                   /\ chat.sends[1].text
                          \notin {ChatErrorNote, ChatQuotaNote, ChatRephraseNote}
                   /\ ~chat'.isLoading
       /\ \A r \in ChatBoundaryResponses :
             (chat.sends # <<>> /\ ChatSearchResponse(1, r))
                => ((chat'.sends # <<>> /\ chat'.sends[1].stage = "extract")
                       <=> (r.kind = "text" /\ r.text.length > 50))]_vars

\* The answer of 51 characters has been shown without places, its send over.
C40_Witness ==
    /\ Len(chat.messages) = 2
    /\ chat.messages[2] = ChatMessage("model", FiftyOneAnswer, <<>>)
    /\ ~chat.isLoading

====
